---------------------------- MODULE Spec2Model ----------------------------
(***************************************************************************)
(* State-machine model of the Opus GreenNet coordinator                    *)
(* (custom_components/opus_greennet): the debounced assembly of flattened  *)
(* MQTT property streams into devices, the discovery lifecycle, and the    *)
(* request/response queries.                                               *)
(*                                                                         *)
(* Python values are tagged records, so that values of different Python    *)
(* types can be compared:                                                  *)
(*   [t |-> "str",  v |-> "on"]     [t |-> "int", v |-> 1]                  *)
(*   [t |-> "bool", v |-> TRUE]     [t |-> "none"]                          *)
(*   [t |-> "map",  k |-> <<keys>>, e |-> <<values>>]   (insertion order)   *)
(*   [t |-> "list", e |-> <<values>>]                                      *)
(***************************************************************************)
EXTENDS Integers, Sequences, FiniteSets, TLC

\* ------------------------------------------------------------------------
\* Bounds of the model
\* ------------------------------------------------------------------------

\* Inbound MQTT messages delivered to the coordinator in one behaviour.
MaxMsgs == 3

\* Responses delivered to one correlated query in one behaviour.
MaxResponses == 2

\* The time, in hundredths of a second, up to which the clock of the timed
\* specification runs.
MaxTime == 600

\* ------------------------------------------------------------------------
\* Python values
\* ------------------------------------------------------------------------

Str(s) == [t |-> "str", v |-> s]
Int_(i) == [t |-> "int", v |-> i]
Bool(b) == [t |-> "bool", v |-> b]
None == [t |-> "none"]
EmptyMap == [t |-> "map", k |-> <<>>, e |-> <<>>]
EmptyList == [t |-> "list", e |-> <<>>]
List(items) == [t |-> "list", e |-> items]

IsMap(n) == n.t = "map"
IsList(n) == n.t = "list"
IsStr(n) == n.t = "str"

\* Position of key in the map's key sequence, 0 when absent.
KeyPos(m, key) ==
    IF \E i \in 1..Len(m.k) : m.k[i] = key
    THEN CHOOSE i \in 1..Len(m.k) : m.k[i] = key
    ELSE 0

\* key in dict
Has(m, key) == KeyPos(m, key) # 0

\* dict[key], for a key that is present
Get(m, key) == m.e[KeyPos(m, key)]

\* dict.get(key, default)
GetOr(m, key, default) == IF Has(m, key) THEN Get(m, key) ELSE default

\* dict[key] = val: an existing key keeps its position, a new key goes last.
Put(m, key, val) ==
    IF Has(m, key)
    THEN [m EXCEPT !.e[KeyPos(m, key)] = val]
    ELSE [m EXCEPT !.k = Append(@, key), !.e = Append(@, val)]

\* A dict literal with one entry.
Map1(key, val) == Put(EmptyMap, key, val)

\* Python truthiness of a value.
Truthy(n) ==
    CASE n.t = "none" -> FALSE
      [] n.t = "bool" -> n.v
      [] n.t = "int"  -> n.v # 0
      [] n.t = "float" -> n.v # 0
      [] n.t = "str"  -> n.v # ""
      [] n.t = "map"  -> Len(n.k) > 0
      [] n.t = "list" -> Len(n.e) > 0

\* a or b
Or(a, b) == IF Truthy(a) THEN a ELSE b

\* ------------------------------------------------------------------------
\* Value Parser and Path Tree Builder
\* ------------------------------------------------------------------------

\* The text forms of the payloads and path segments the model draws from.
TrueForms == {"true", "True", "TRUE", "tRuE"}
FalseForms == {"false", "False", "FALSE", "fAlSe"}
IntLiterals == {"0", "1", "2", "50", "100"}
SignedLiterals == {"-5"}
FloatLiterals == {"1.5", "2.0"}

\* int(s) for the integer literals of the model.
IntOf(s) ==
    CASE s = "0" -> 0
      [] s = "1" -> 1
      [] s = "2" -> 2
      [] s = "50" -> 50
      [] s = "100" -> 100
      [] s = "-5" -> -5

\* A float of the model, its value held in tenths.
Float(tenths) == [t |-> "float", v |-> tenths]

\* float(s) for the float literals of the model.
FloatOf(s) ==
    CASE s = "1.5" -> Float(15)
      [] s = "2.0" -> Float(20)

\* str.lower() on a payload: only its comparison with "true" and "false" is
\* used, so a text that is neither in any case stands for itself.
Lower(s) ==
    IF s \in TrueForms THEN "true"
    ELSE IF s \in FalseForms THEN "false"
    ELSE s

\* str.isdigit() on a path segment.
IsDigit(s) == s \in IntLiterals

\* The dict key an integer index makes when it is assigned into a dict
\* (current[idx] = value with current a dict): distinct from every text key.
IntKey(i) == "#" \o ToString(i)

\* ParseValue as it would be if float(value) were tried before int(value).
ParseValueFloatFirst(raw) ==
    IF Lower(raw) = "true" THEN Bool(TRUE)
    ELSE IF Lower(raw) = "false" THEN Bool(FALSE)
    ELSE IF raw \in FloatLiterals THEN FloatOf(raw)
    ELSE IF raw \in IntLiterals \cup SignedLiterals THEN Float(IntOf(raw) * 10)
    ELSE Str(raw)

\* _parse_value: bool, then int(value), then float(value), then the text; a
\* ValueError of int or float is caught.
ParseValue(raw) ==
    IF Lower(raw) = "true" THEN Bool(TRUE)
    ELSE IF Lower(raw) = "false" THEN Bool(FALSE)
    ELSE IF raw \in IntLiterals \cup SignedLiterals THEN Int_(IntOf(raw))
    ELSE IF raw \in FloatLiterals THEN FloatOf(raw)
    ELSE Str(raw)

RECURSIVE Pad(_, _, _)
\* while len(current) <= idx: current.append(filler)
Pad(items, idx, filler) ==
    IF Len(items) <= idx THEN Pad(Append(items, filler), idx, filler) ELSE items

\* A step of _set_nested_property that raised: the container is left as it is.
Raised(cur) == [n |-> cur, err |-> TRUE]
Done(cur) == [n |-> cur, err |-> FALSE]

\* The assignment of the final segment.
SetFinal(cur, final_key, value) ==
    IF IsDigit(final_key)
    THEN LET idx == IntOf(final_key) IN
         IF IsList(cur)
         THEN Done([cur EXCEPT !.e = [Pad(cur.e, idx, None) EXCEPT ![idx + 1] = value]])
         ELSE IF IsMap(cur) /\ Len(cur.k) > idx
         THEN Done(Put(cur, IntKey(idx), value))
         ELSE Raised(cur)
    ELSE IF IsMap(cur) THEN Done(Put(cur, final_key, value))
    ELSE Raised(cur)

RECURSIVE SetAt(_, _, _)
\* The loop of _set_nested_property from container cur on: the container after
\* the call, with what was created before an exception kept, and whether it
\* raised.
SetAt(cur, parts, value) ==
    IF Len(parts) = 1 THEN SetFinal(cur, parts[1], value)
    ELSE
    LET part == parts[1]
        rest == Tail(parts)
    IN
    IF IsDigit(parts[2])
    THEN \* the next segment is an array index: this one names a list
         IF ~IsMap(cur) THEN Raised(cur)
         ELSE LET c1 == IF Has(cur, part) THEN cur ELSE Put(cur, part, EmptyList)
                  r == SetAt(Get(c1, part), rest, value)
              IN [n |-> Put(c1, part, r.n), err |-> r.err]
    ELSE IF IsDigit(part)
    THEN \* this segment is an array index
         LET idx == IntOf(part) IN
         IF IsList(cur)
         THEN LET items == Pad(cur.e, idx, EmptyMap)
                  r == SetAt(items[idx + 1], rest, value)
              IN [n |-> [cur EXCEPT !.e = [items EXCEPT ![idx + 1] = r.n]], err |-> r.err]
         ELSE IF IsMap(cur) /\ Len(cur.k) > idx /\ Has(cur, IntKey(idx))
         THEN LET r == SetAt(Get(cur, IntKey(idx)), rest, value)
              IN [n |-> Put(cur, IntKey(idx), r.n), err |-> r.err]
         ELSE Raised(cur)
    ELSE \* a named entry
         IF ~IsMap(cur) THEN Raised(cur)
         ELSE LET c1 == IF Has(cur, part) THEN cur ELSE Put(cur, part, EmptyMap)
                  r == SetAt(Get(c1, part), rest, value)
              IN [n |-> Put(c1, part, r.n), err |-> r.err]

\* _set_nested_property(data, path, value), the path already split on "/".
SetNestedProperty(data, parts, raw) == SetAt(data, parts, ParseValue(raw))

\* ------------------------------------------------------------------------
\* Device / Channel model (enocean_device.py)
\* ------------------------------------------------------------------------

DEFAULT_CHANNEL == 0

\* An optional number (int | None): <<>> is None, <<n>> is n.
NoNumber == <<>>

\* EnOceanChannel(channel_id) with its defaults.
EnOceanChannel(channel_id) ==
    [channel_id |-> channel_id, is_on |-> FALSE, brightness |-> NoNumber,
     position |-> NoNumber, angle |-> NoNumber, local_control |-> FALSE,
     energy |-> NoNumber, power |-> NoNumber]

\* EnOceanDevice(...): channels maps a channel index to its EnOceanChannel.
EnOceanDevice(device_id, friendly_id, eeps, manufacturer) ==
    [device_id |-> device_id, friendly_id |-> friendly_id, eeps |-> eeps,
     manufacturer |-> manufacturer, last_seen |-> Str(""), dbm |-> Int_(0),
     channels |-> <<>>]

\* int(value) on a value of the model: <<n>> when it converts (a float is
\* truncated), <<>> when it raises ValueError or TypeError.
PyInt(value) ==
    CASE value.t = "int" -> <<value.v>>
      [] value.t = "bool" -> <<IF value.v THEN 1 ELSE 0>>
      [] value.t = "float" -> <<value.v \div 10>>
      [] value.t = "str" -> IF value.v \in IntLiterals \cup SignedLiterals
                            THEN <<IntOf(value.v)>> ELSE <<>>
      [] OTHER -> <<>>

\* float(value) on a value of the model: <<tenths>> when it converts, <<>>
\* when it raises ValueError or TypeError.
PyFloat(value) ==
    CASE value.t = "int" -> <<value.v * 10>>
      [] value.t = "bool" -> <<IF value.v THEN 10 ELSE 0>>
      [] value.t = "float" -> <<value.v>>
      [] value.t = "str" -> IF value.v \in IntLiterals \cup SignedLiterals
                            THEN <<IntOf(value.v) * 10>>
                            ELSE IF value.v \in FloatLiterals THEN <<FloatOf(value.v).v>>
                            ELSE <<>>
      [] OTHER -> <<>>

\* get_or_create_channel
GetOrCreateChannel(channels, channel_id) ==
    IF channel_id \in DOMAIN channels THEN channels
    ELSE [c \in DOMAIN channels \cup {channel_id} |->
            IF c = channel_id THEN EnOceanChannel(channel_id) ELSE channels[c]]

\* The channel a function list addresses: the first "channel" function, its
\* value as an int, DEFAULT_CHANNEL when it does not convert.
RECURSIVE TelegramChannel(_)
TelegramChannel(functions) ==
    IF functions = <<>> THEN DEFAULT_CHANNEL
    ELSE IF GetOr(Head(functions), "key", None) = Str("channel")
    THEN LET n == PyInt(GetOr(Head(functions), "value", Int_(DEFAULT_CHANNEL)))
         IN IF n = <<>> THEN DEFAULT_CHANNEL ELSE n[1]
    ELSE TelegramChannel(Tail(functions))

\* ApplyFunction as it would be if a value that does not convert unset the
\* field instead of leaving it.
ApplyFunctionUnsets(channel, func) ==
    LET key == GetOr(func, "key", None)
        value == GetOr(func, "value", None)
        n == PyInt(value)
        x == PyFloat(value)
    IN
    IF key = Str("switch") THEN [channel EXCEPT !.is_on = (value = Str("on"))]
    ELSE IF key = Str("dimValue")
    THEN [channel EXCEPT !.brightness = n, !.is_on = (n # <<>> /\ n[1] > 0)]
    ELSE IF key = Str("position") THEN [channel EXCEPT !.position = n]
    ELSE IF key = Str("angle") THEN [channel EXCEPT !.angle = n]
    ELSE IF key = Str("localControl")
    THEN [channel EXCEPT !.local_control = (value = Str("on"))]
    ELSE IF key = Str("energy") THEN [channel EXCEPT !.energy = x]
    ELSE IF key = Str("power") THEN [channel EXCEPT !.power = x]
    ELSE channel

\* One function applied to a channel (the if/elif chain of update_from_telegram);
\* energy and power, which are floats, are held in tenths.
ApplyFunction(channel, func) ==
    LET key == GetOr(func, "key", None)
        value == GetOr(func, "value", None)
        n == PyInt(value)
        x == PyFloat(value)
    IN
    IF key = Str("switch") THEN [channel EXCEPT !.is_on = (value = Str("on"))]
    ELSE IF key = Str("dimValue")
    THEN IF n = <<>> THEN channel
         ELSE [channel EXCEPT !.brightness = n, !.is_on = (n[1] > 0)]
    ELSE IF key = Str("position")
    THEN IF n = <<>> THEN channel ELSE [channel EXCEPT !.position = n]
    ELSE IF key = Str("angle")
    THEN IF n = <<>> THEN channel ELSE [channel EXCEPT !.angle = n]
    ELSE IF key = Str("localControl")
    THEN [channel EXCEPT !.local_control = (value = Str("on"))]
    ELSE IF key = Str("energy")
    THEN IF x = <<>> THEN channel ELSE [channel EXCEPT !.energy = x]
    ELSE IF key = Str("power")
    THEN IF x = <<>> THEN channel ELSE [channel EXCEPT !.power = x]
    ELSE channel

RECURSIVE ApplyFunctions(_, _)
ApplyFunctions(channel, functions) ==
    IF functions = <<>> THEN channel
    ELSE ApplyFunctions(ApplyFunction(channel, Head(functions)), Tail(functions))

\* update_from_telegram(telegram), telegram a dict with "functions" (a list of
\* dicts) and, from the telegram stream, "timestamp" and "telegramInfo".  The
\* result is the device after the call and whether the call raised (a
\* telegramInfo that is no dict has no .get).
UpdateFromTelegram(device, telegram) ==
    LET functions == GetOr(telegram, "functions", EmptyList).e
        channel_id == TelegramChannel(functions)
        chans == GetOrCreateChannel(device.channels, channel_id)
        d1 == [device EXCEPT
                 !.channels = [chans EXCEPT ![channel_id] = ApplyFunctions(@, functions)]]
        d2 == IF Has(telegram, "timestamp")
              THEN [d1 EXCEPT !.last_seen = Get(telegram, "timestamp")] ELSE d1
    IN
    IF ~Has(telegram, "telegramInfo") THEN [dev |-> d2, err |-> FALSE]
    ELSE IF ~IsMap(Get(telegram, "telegramInfo")) THEN [dev |-> d2, err |-> TRUE]
    ELSE LET dbm == GetOr(Get(telegram, "telegramInfo"), "dbm", None)
         IN [dev |-> IF dbm = None THEN d2 ELSE [d2 EXCEPT !.dbm = dbm], err |-> FALSE]

\* ------------------------------------------------------------------------
\* Coordinator state (coordinator.py, OpusGreenNetCoordinator.__init__)
\* ------------------------------------------------------------------------

VARIABLES
    setup_pc,               \* awaits of async_setup that have completed
    life,                   \* "setup" | "ready" | "unloaded" | "failed"
    subscriptions,          \* _subscriptions: the handlers subscribed, in order
    devices,                \* devices: device_key -> EnOceanDevice
    device_id_to_key,       \* _device_id_to_key
    device_data,            \* _device_data: a dict device_id -> tree
    telegram_data,          \* _telegram_data
    device_stream_data,     \* _device_stream_data
    pending_devices,        \* _pending_devices
    pending_telegrams,      \* _pending_telegrams: the ids holding a timer handle
    pending_device_streams, \* _pending_device_streams
    discovery_timer,        \* _discovery_timer: "None" or "Set" (a handle)
    discovery_complete,     \* _discovery_complete
    timers,                 \* the event loop's armed async_call_later timers
    emitted,                \* dispatcher signals sent by the last step
    discovered,             \* history: discovered signals sent, per key and id
    finalize_runs,          \* history: finalize runs per stream key since its last fragment
    finalize_found,         \* history: the key's last finalize found its Device in the map
    escaped,                \* history: the last step let an exception escape
    budget                  \* inbound messages still to be delivered


\* A correlated query in flight (async_get_device_profile,
\* async_get_device_configuration, async_get_device_parameters).
VARIABLES
    q_kind,        \* "none" | "profile" | "configuration" | "parameters"
    q_device,      \* the device id queried
    q_pc,          \* "idle" | "subscribing" | "publishing" | "waiting" | "returned" | "raised"
    q_active,      \* the answer subscription is active
    q_timer,       \* the profile query's unsubscribe timer is armed
    q_event,       \* event.is_set()
    q_result,      \* result: "None" or "data"
    q_profile,     \* a profile was stored on a device
    q_timed_out,   \* history: wait_for raised TimeoutError
    q_calls,       \* history: the transport calls made, in order
    q_responses    \* history: responses delivered to the answer handler

queryVars == <<q_kind, q_device, q_pc, q_active, q_timer, q_event, q_result, q_profile,
               q_timed_out, q_calls, q_responses>>

\* The entity of one channel of a device and the commands sent (light.py,
\* switch.py, cover.py, the command operations of coordinator.py).
VARIABLES
    e_kind,       \* the platform of the entity: "none" | "light" | "switch" | "cover"
    e_device,     \* the entity's self._device (the Device object of the coordinator)
    e_channel,    \* the entity's self._channel_id
    c_op,         \* history: the last command operation and its arguments
    c_via,        \* history: who called it: "caller" | "light" | "switch" | "cover"
    c_functions,  \* history: the function list of the last command's state message
    c_published   \* history: the transport accepted the last command's publish

\* A flattened object being rebuilt by the Path Tree Builder, and a payload
\* text parsed by the Value Parser.
VARIABLES
    t_obj,      \* the object that was flattened (None before the first)
    t_leaves,   \* its leaves not yet applied
    t_tree,     \* the tree rebuilt so far
    t_err,      \* _set_nested_property raised on one of the leaves applied
    t_raw,      \* the last text given to _parse_value
    t_value     \* what _parse_value returned for it

treeVars == <<t_obj, t_leaves, t_tree, t_err, t_raw, t_value>>

\* The gateway info and, as history, the last inbound message and the last
\* telegram record finalized.
VARIABLES
    gateway_info,  \* gateway_info
    received,      \* history: topic and validity of the message of the last step
    last_record    \* history: the record the last telegram finalize popped

inboundVars == <<gateway_info, received, last_record>>

\* The event loop's clock (loop.time(), in hundredths of a second) and, as
\* history, when async_setup's initial window ends and when the first
\* discovery finalize after it ran.
VARIABLES
    now,               \* the time; it passes only in the timed specification
    window_end,        \* history: <<t>> once async_setup has armed its timer, due at t
    first_finalize_at  \* history: <<t>> once a discovery finalize has run after that

timeVars == <<now, window_end, first_finalize_at>>

\* A Device that function lists are applied to (update_from_telegram).
VARIABLES
    u_device,     \* the Device
    u_before,     \* history: the Device before the last update_from_telegram
    u_functions,  \* history: the function list of the last update_from_telegram
    u_updates     \* history: the calls of update_from_telegram made

updateVars == <<u_device, u_before, u_functions, u_updates>>

cmdVars == <<e_kind, e_device, e_channel, c_op, c_via, c_functions, c_published>>

coordVars == <<setup_pc, life, subscriptions, devices, device_id_to_key, device_data,
               telegram_data, device_stream_data, pending_devices, pending_telegrams,
               pending_device_streams, discovery_timer, discovery_complete, timers,
               emitted, discovered, finalize_runs, finalize_found, escaped, budget>>

\* Quiet periods, in hundredths of a second.
INITIAL_DISCOVERY_DELAY == 500
DISCOVERY_DELAY == 200
STREAM_DELAY == 2

\* The gateway's device ids that appear in topics and payloads.
DeviceIds == {"A", "B"}

\* A stream key: the shared discovery stream, or a device's telegram or
\* live-delta stream.
DiscoveryKey == [stream |-> "discovery", id |-> ""]
TelegramKey(id) == [stream |-> "telegram", id |-> id]
DeviceStreamKey(id) == [stream |-> "device", id |-> id]
StreamKeys ==
    {DiscoveryKey} \cup {TelegramKey(d) : d \in DeviceIds}
                   \cup {DeviceStreamKey(d) : d \in DeviceIds}

\* An armed timer: ref says that the coordinator's handle for its key (the
\* _discovery_timer, or the device's entry of the pending dict) is this timer.
\* async_call_later(delay, ...) makes it due delay after the current time.
Timer(key, delay, ref) == [key |-> key, delay |-> delay, ref |-> ref, due |-> now + delay]

\* Calling a handle cancels the timer it refers to (a no-op once it has fired).
Cancel(ts, key) == {t \in ts : ~(t.key = key /\ t.ref)}

\* Overwriting a handle without calling it leaves its timer armed, unreferenced.
Orphan(ts, key) ==
    {t \in ts : t.key # key} \cup {[t EXCEPT !.ref = FALSE] : t \in {u \in ts : u.key = key}}

\* async_call_later(delay, ...) stored as the handle of key.
Arm(ts, key, delay) == Orphan(ts, key) \cup {Timer(key, delay, TRUE)}

\* dict.pop(key, None) on a dict of the model.
Pop(m, key) ==
    IF ~Has(m, key) THEN m
    ELSE LET Sel(seq) == [i \in 1..(Len(seq) - 1) |->
                            IF i < KeyPos(m, key) THEN seq[i] ELSE seq[i + 1]]
         IN [m EXCEPT !.k = Sel(m.k), !.e = Sel(m.e)]

\* async_dispatcher_send of the two signals.
SignalDiscovered(key, device) ==
    [sig |-> "discovered", key |-> key, id |-> device.device_id, device |-> device]
SignalStateUpdate(key, device) ==
    [sig |-> "state_update", key |-> key, id |-> device.device_id, device |-> device]

\* ------------------------------------------------------------------------
\* Discovery: _finalize_discovery, _create_device_from_data, _apply_initial_state
\* ------------------------------------------------------------------------

\* The state keys that discovery data and deltas may carry under "states"
\* (const.KNOWN_STATE_KEYS, imported by coordinator.py).
KNOWN_STATE_KEYS ==
    {"switch", "dimValue", "position", "angle", "channel", "localControl",
     "energy", "power"}

\* [{"key": k, "value": v} for k, v in states.items() if k in KNOWN_STATE_KEYS]
RECURSIVE StateFunctions(_, _)
StateFunctions(states, i) ==
    IF i > Len(states.k) THEN <<>>
    ELSE (IF states.k[i] \in KNOWN_STATE_KEYS
          THEN <<Put(Map1("key", Str(states.k[i])), "value", states.e[i])>>
          ELSE <<>>) \o StateFunctions(states, i + 1)

\* [f for f in items if isinstance(f, dict)]
RECURSIVE OnlyDicts(_)
OnlyDicts(items) ==
    IF items = <<>> THEN <<>>
    ELSE (IF IsMap(Head(items)) THEN <<Head(items)>> ELSE <<>>) \o OnlyDicts(Tail(items))

\* The entries of a dict of function entries, in the order of its keys, those
\* that are dicts.  (Keys are sorted by the code; the model draws no path that
\* gives such a dict more than one key.)
DictFunctions(functions_data) == OnlyDicts(functions_data.e)

\* The functions list both finalize routines build from a list or a dict.
FunctionsOf(functions_data) ==
    IF IsList(functions_data) THEN OnlyDicts(functions_data.e)
    ELSE IF IsMap(functions_data) THEN DictFunctions(functions_data)
    ELSE <<>>

\* _apply_initial_state(device, data)
ApplyInitialState(device, data) ==
    LET states == GetOr(data, "states", EmptyMap)
        functions == IF IsMap(states) THEN StateFunctions(states, 1) ELSE <<>>
    IN
    IF ~Truthy(states) \/ ~IsMap(states) \/ functions = <<>> THEN device
    ELSE UpdateFromTelegram(device, Map1("functions", List(functions))).dev

\* One entry of a dict of eeps, as the loop over its sorted keys appends it.
EepEntry(entry) ==
    IF IsMap(entry) THEN <<entry>>
    ELSE IF IsStr(entry) THEN <<Map1("eep", entry)>>
    ELSE <<>>

RECURSIVE EepEntries(_)
EepEntries(entries) ==
    IF entries = <<>> THEN <<>>
    ELSE EepEntry(Head(entries)) \o EepEntries(Tail(entries))

\* The eeps list built from data["eeps"]: a list is taken as it is; the entries
\* of a dict are taken in the order of its keys (no drawn path gives it two).
EepsOf(data) ==
    LET eeps_data == GetOr(data, "eeps", EmptyMap) IN
    IF IsList(eeps_data) THEN eeps_data.e
    ELSE IF IsMap(eeps_data) THEN EepEntries(eeps_data.e)
    ELSE <<>>

\* device.entity_type raises when the primary eep entry is no dict
\* (self.eeps[0].get): the log call of _create_device_from_data evaluates it.
EntityTypeRaises(device) == device.eeps # <<>> /\ ~IsMap(device.eeps[1])

\* devices[key] = device
Store(devs, key, device) ==
    [k \in DOMAIN devs \cup {key} |-> IF k = key THEN device ELSE devs[k]]

\* friendly_id = data.get("friendlyId", device_id); device_key = friendly_id
DeviceKey(device_id, data) == GetOr(data, "friendlyId", Str(device_id))

\* WithChannels as it would be if a resolution always took the channels from
\* the data's "states".
WithChannelsFromStates(devs, device_key, device, data) ==
    ApplyInitialState(device, data)

\* The new device's channels: those of the device already stored under the
\* key, else what the data's "states" give (_apply_initial_state).
WithChannels(devs, device_key, device, data) ==
    IF device_key \in DOMAIN devs
    THEN [device EXCEPT !.channels = devs[device_key].channels]
    ELSE ApplyInitialState(device, data)

\* _create_device_from_data(device_id, data) on the coordinator's device map,
\* reverse index and the signals sent so far in this step.
CreateDeviceFromData(st, device_id, data) ==
    LET friendly_id == GetOr(data, "friendlyId", Str(device_id))
        device_key == DeviceKey(device_id, data)
        eeps == EepsOf(data)
        is_new == device_key \notin DOMAIN st.devices
        was_incomplete ==
            device_key \in DOMAIN st.devices /\ st.devices[device_key].eeps = <<>>
        fresh == EnOceanDevice(device_id, friendly_id, eeps,
                               GetOr(data, "manufacturer", Str("")))
        device == WithChannels(st.devices, device_key, fresh, data)
        stored == [st EXCEPT
                     !.devices = Store(st.devices, device_key, device),
                     !.device_id_to_key = Store(st.device_id_to_key, device_id, device_key)]
    IN
    IF EntityTypeRaises(device) THEN stored
    ELSE IF is_new \/ was_incomplete
    THEN [stored EXCEPT !.emitted = Append(@, SignalDiscovered(device_key, device))]
    ELSE stored

RECURSIVE FinalizeLoop(_, _, _, _)
\* The loop of _finalize_discovery over _device_data.items(), from entry i on.
FinalizeLoop(st, data, pending, i) ==
    IF i > Len(data.k) THEN st
    ELSE IF data.k[i] \in pending
    THEN FinalizeLoop(CreateDeviceFromData(st, data.k[i], data.e[i]), data, pending, i + 1)
    ELSE FinalizeLoop(st, data, pending, i + 1)

\* ------------------------------------------------------------------------
\* Inbound messages the model draws
\* ------------------------------------------------------------------------

Fragment(parts, raw) == [parts |-> parts, raw |-> raw]

\* stream/devices/<id>/<path> leaves of the bulk snapshot.
DeviceFragments ==
    {Fragment(<<"friendlyId">>, "K"),
     Fragment(<<"friendlyId">>, "0"),
     Fragment(<<"eeps", "0", "eep">>, "D2-01-00"),
     Fragment(<<"eeps", "0">>, "D2-01-00"),
     Fragment(<<"states", "switch">>, "on"),
     Fragment(<<"states", "channel">>, "1")}

\* stream/telegram/<id>/<path> leaves.
TelegramFragments ==
    {Fragment(<<"from", "functions", "0", "key">>, "switch"),
     Fragment(<<"from", "functions", "0", "value">>, "on")}

\* stream/device/<id>/<path> leaves of a live delta.
DeviceStreamFragments ==
    {Fragment(<<"state", "functions", "0", "key">>, "dimValue"),
     Fragment(<<"state", "functions", "0", "value">>, "50")}

\* A device object of a getAnswer/devices response, as json.loads returns it.
DeviceObject(id) ==
    Put(Put(Put(Map1("deviceId", Str(id)),
        "eeps", List(<<Map1("eep", Str("D2-01-02"))>>)),
        "manufacturer", Str("OPUS")),
        "states", Map1("switch", Str("off")))

\* json.loads(payload) of the getAnswer/devices payloads drawn; "invalid" is a
\* payload that is no JSON.
Invalid == [t |-> "invalid"]
AnswerPayloads == {List(<<DeviceObject("A")>>), DeviceObject("B"), Invalid}

\* ------------------------------------------------------------------------
\* History bookkeeping
\* ------------------------------------------------------------------------

RECURSIVE CountDiscovered(_, _)
\* discovered with the discovered signals among sigs counted in.
CountDiscovered(bag, sigs) ==
    IF sigs = <<>> THEN bag
    ELSE LET s == Head(sigs)
             who == [key |-> s.key, id |-> s.id]
             b1 == IF s.sig # "discovered" THEN bag
                   ELSE IF who \in DOMAIN bag THEN [bag EXCEPT ![who] = @ + 1]
                   ELSE [w \in DOMAIN bag \cup {who} |-> IF w = who THEN 1 ELSE bag[w]]
         IN CountDiscovered(b1, Tail(sigs))

\* A fragment for key was accepted by its handler.
FragmentArrived(key) ==
    /\ finalize_runs' = [finalize_runs EXCEPT ![key] = 0]
    /\ finalize_found' = [finalize_found EXCEPT ![key] = FALSE]

\* The finalize routine of key ran; found says that it met a Device of its
\* record already in the map.
FinalizeRan(key, found) ==
    /\ finalize_runs' = [finalize_runs EXCEPT ![key] = @ + 1]
    /\ finalize_found' = [finalize_found EXCEPT ![key] = found]

\* A step that sends no signal and lets no exception escape.
Quiet == emitted' = <<>> /\ discovered' = discovered /\ escaped' = FALSE

\* A step that sends sigs.
Sends(sigs) == emitted' = sigs /\ discovered' = CountDiscovered(discovered, sigs)

\* ------------------------------------------------------------------------
\* Lifecycle: async_setup, async_unload
\* ------------------------------------------------------------------------

\* The handlers async_setup subscribes, in order; three publishes follow.
SetupSubscriptions ==
    <<"telegram", "devices", "device_stream", "get_answer", "system_info", "system_uptime">>
SetupAwaits == Len(SetupSubscriptions) + 3

Subscribed(name) == \E i \in 1..Len(subscriptions) : subscriptions[i] = name

Init ==
    /\ setup_pc = 0
    /\ life = "setup"
    /\ subscriptions = <<>>
    /\ devices = <<>>
    /\ device_id_to_key = <<>>
    /\ device_data = EmptyMap
    /\ telegram_data = EmptyMap
    /\ device_stream_data = EmptyMap
    /\ pending_devices = {}
    /\ pending_telegrams = {}
    /\ pending_device_streams = {}
    /\ discovery_timer = "None"
    /\ discovery_complete = FALSE
    /\ timers = {}
    /\ emitted = <<>>
    /\ discovered = <<>>
    /\ finalize_runs = [k \in StreamKeys |-> 0]
    /\ finalize_found = [k \in StreamKeys |-> FALSE]
    /\ escaped = FALSE
    /\ budget = MaxMsgs
    \* no query in flight
    /\ q_kind = "none"
    /\ q_device = ""
    /\ q_pc = "idle"
    /\ q_active = FALSE
    /\ q_timer = FALSE
    /\ q_event = FALSE
    /\ q_result = "None"
    /\ q_profile = FALSE
    /\ q_timed_out = FALSE
    /\ q_calls = <<>>
    /\ q_responses = 0
    \* no gateway info, nothing received
    /\ gateway_info = EmptyMap
    /\ received = [topic |-> "none", valid |-> TRUE]
    /\ last_record = None
    \* the clock at zero, setup's timer not yet armed
    /\ now = 0
    /\ window_end = <<>>
    /\ first_finalize_at = <<>>
    \* a Device without channels, not yet updated
    /\ u_device = EnOceanDevice("A", Str("K"), <<>>, Str(""))
    /\ u_before = EnOceanDevice("A", Str("K"), <<>>, Str(""))
    /\ u_functions = <<>>
    /\ u_updates = 0
    \* no entity, no command
    /\ e_kind = "none"
    /\ e_device = EnOceanDevice("", Str(""), <<>>, Str(""))
    /\ e_channel = DEFAULT_CHANNEL
    /\ c_op = [name |-> "none", device_id |-> "", channel |-> 0, value |-> <<>>,
               is_dimmable |-> FALSE]
    /\ c_via = "none"
    /\ c_functions = <<>>
    /\ c_published = FALSE
    \* nothing flattened, the empty text parsed
    /\ t_obj = None
    /\ t_leaves = {}
    /\ t_tree = EmptyMap
    /\ t_err = FALSE
    /\ t_raw = ""
    /\ t_value = Str("")

\* async_setup resumes from one await (a subscribe or a publish) and runs to its
\* next one; after the last publish it arms the initial discovery timer,
\* overwriting _discovery_timer, and returns.
SetupStep ==
    /\ life = "setup"
    /\ setup_pc' = setup_pc + 1
    /\ subscriptions' = IF setup_pc < Len(SetupSubscriptions)
                        THEN Append(subscriptions, SetupSubscriptions[setup_pc + 1])
                        ELSE subscriptions
    /\ IF setup_pc + 1 = SetupAwaits
       THEN /\ timers' = Arm(timers, DiscoveryKey, INITIAL_DISCOVERY_DELAY)
            /\ discovery_timer' = "Set"
            /\ life' = "ready"
       ELSE UNCHANGED <<timers, discovery_timer, life>>
    /\ Quiet
    /\ UNCHANGED <<devices, device_id_to_key, device_data, telegram_data,
                   device_stream_data, pending_devices, pending_telegrams,
                   pending_device_streams, discovery_complete, finalize_runs,
                   finalize_found, budget>>

\* The subscribe or publish that async_setup awaits raises: the exception
\* leaves async_setup, which has no handler for it; async_setup_entry turns it
\* into ConfigEntryNotReady and drops the coordinator without unloading it.
SetupFails ==
    /\ life = "setup"
    /\ setup_pc < SetupAwaits
    /\ life' = "failed"
    /\ Quiet
    /\ UNCHANGED <<setup_pc, subscriptions, devices, device_id_to_key, device_data,
                   telegram_data, device_stream_data, pending_devices, pending_telegrams,
                   pending_device_streams, discovery_timer, discovery_complete, timers,
                   finalize_runs, finalize_found, budget>>

\* async_unload: the discovery handle is called, every subscription released.
Unload ==
    /\ life = "ready"
    /\ life' = "unloaded"
    /\ timers' = IF discovery_timer = "Set" THEN Cancel(timers, DiscoveryKey) ELSE timers
    /\ subscriptions' = <<>>
    /\ Quiet
    /\ UNCHANGED <<setup_pc, devices, device_id_to_key, device_data, telegram_data,
                   device_stream_data, pending_devices, pending_telegrams,
                   pending_device_streams, discovery_timer, discovery_complete,
                   finalize_runs, finalize_found, budget>>

\* if self._discovery_timer: self._discovery_timer()
\* self._discovery_timer = async_call_later(self.hass, 2, self._finalize_discovery)
RearmDiscovery ==
    /\ timers' = Arm(IF discovery_timer = "Set" THEN Cancel(timers, DiscoveryKey) ELSE timers,
                     DiscoveryKey, DISCOVERY_DELAY)
    /\ discovery_timer' = "Set"

\* ------------------------------------------------------------------------
\* Bulk snapshot: _handle_device_property_message, _handle_get_answer_devices
\* ------------------------------------------------------------------------

HandleDevicePropertyMessage(device_id, f) ==
    /\ Subscribed("devices")
    /\ budget > 0
    /\ budget' = budget - 1
    /\ LET known == Has(device_data, device_id)
           d1 == IF known THEN device_data
                 ELSE Put(device_data, device_id, Map1("deviceId", Str(device_id)))
           r == SetNestedProperty(Get(d1, device_id), f.parts, f.raw)
       IN /\ device_data' = Put(d1, device_id, r.n)
          /\ pending_devices' = IF known THEN pending_devices
                                ELSE pending_devices \cup {device_id}
          /\ IF r.err THEN UNCHANGED <<timers, discovery_timer>> ELSE RearmDiscovery
    /\ FragmentArrived(DiscoveryKey)
    /\ Quiet
    /\ UNCHANGED <<setup_pc, life, subscriptions, devices, device_id_to_key,
                   telegram_data, device_stream_data, pending_telegrams,
                   pending_device_streams, discovery_complete>>

\* The devices_list a getAnswer/devices payload gives; <<>> with ok FALSE when
\* the handler returns without one.
DevicesList(data) ==
    IF IsList(data) THEN [ok |-> TRUE, items |-> data]
    ELSE IF IsMap(data)
    THEN [ok |-> TRUE, items |-> IF Has(data, "devices") THEN Get(data, "devices")
                                 ELSE List(<<data>>)]
    ELSE [ok |-> FALSE, items |-> EmptyList]

RECURSIVE AnswerLoop(_, _)
\* for device_data in devices_list: ... (an entry that is no dict raises)
AnswerLoop(acc, items) ==
    IF items = <<>> THEN acc
    ELSE IF ~IsMap(Head(items)) THEN [acc EXCEPT !.err = TRUE]
    ELSE LET device_id == GetOr(Head(items), "deviceId", Str("")) IN
         IF Truthy(device_id)
         THEN AnswerLoop([acc EXCEPT !.data = Put(@, device_id.v, Head(items)),
                                     !.pending = @ \cup {device_id.v}], Tail(items))
         ELSE AnswerLoop(acc, Tail(items))

HandleGetAnswerDevices(data) ==
    /\ Subscribed("get_answer")
    /\ budget > 0
    /\ budget' = budget - 1
    /\ LET list == DevicesList(data)
           r == IF list.ok /\ IsList(list.items)
                THEN AnswerLoop([data |-> device_data, pending |-> pending_devices,
                                 err |-> FALSE], list.items.e)
                ELSE [data |-> device_data, pending |-> pending_devices, err |-> TRUE]
       IN IF data = Invalid \/ ~list.ok
          THEN UNCHANGED <<device_data, pending_devices, timers, discovery_timer,
                           finalize_runs, finalize_found>>
          ELSE /\ device_data' = r.data
               /\ pending_devices' = r.pending
               /\ IF r.err THEN UNCHANGED <<timers, discovery_timer>> ELSE RearmDiscovery
               /\ FragmentArrived(DiscoveryKey)
    /\ Quiet
    /\ UNCHANGED <<setup_pc, life, subscriptions, devices, device_id_to_key,
                   telegram_data, device_stream_data, pending_telegrams,
                   pending_device_streams, discovery_complete>>

\* _finalize_discovery, run by a discovery timer that fires.
FinalizeDiscovery ==
    \E t \in timers :
        /\ t.key = DiscoveryKey
        /\ timers' = timers \ {t}
        /\ LET st == FinalizeLoop([devices |-> devices, device_id_to_key |-> device_id_to_key,
                                   emitted |-> <<>>], device_data, pending_devices, 1)
           IN /\ devices' = st.devices
              /\ device_id_to_key' = st.device_id_to_key
              /\ Sends(st.emitted)
        /\ pending_devices' = pending_devices \ {device_data.k[i] : i \in 1..Len(device_data.k)}
        /\ discovery_complete' = TRUE
        /\ escaped' = FALSE
        /\ FinalizeRan(DiscoveryKey,
                       \E i \in 1..Len(device_data.k) :
                           /\ device_data.k[i] \in pending_devices
                           /\ DeviceKey(device_data.k[i], device_data.e[i]) \in DOMAIN devices)
        /\ UNCHANGED <<setup_pc, life, subscriptions, device_data, telegram_data,
                       device_stream_data, pending_telegrams, pending_device_streams,
                       discovery_timer, budget>>

\* ------------------------------------------------------------------------
\* Telegram stream: _handle_telegram_property_message, _finalize_telegram
\* ------------------------------------------------------------------------

HandleTelegramPropertyMessage(device_id, f) ==
    /\ Subscribed("telegram")
    /\ budget > 0
    /\ budget' = budget - 1
    /\ LET d1 == IF Has(telegram_data, device_id) THEN telegram_data
                 ELSE Put(telegram_data, device_id, Map1("deviceId", Str(device_id)))
           r == SetNestedProperty(Get(d1, device_id), f.parts, f.raw)
       IN /\ telegram_data' = Put(d1, device_id, r.n)
          /\ IF r.err THEN UNCHANGED <<timers, pending_telegrams>>
             ELSE /\ timers' = Arm(IF device_id \in pending_telegrams
                                   THEN Cancel(timers, TelegramKey(device_id)) ELSE timers,
                                   TelegramKey(device_id), STREAM_DELAY)
                  /\ pending_telegrams' = pending_telegrams \cup {device_id}
    /\ FragmentArrived(TelegramKey(device_id))
    /\ Quiet
    /\ UNCHANGED <<setup_pc, life, subscriptions, devices, device_id_to_key, device_data,
                   device_stream_data, pending_devices, pending_device_streams,
                   discovery_timer, discovery_complete>>

\* device_key = self._device_id_to_key.get(device_id)
\* device = self.devices.get(device_key) if device_key else None
\* The key of the device found, <<>> when device is None.
LookupDevice(device_id) ==
    IF device_id \notin DOMAIN device_id_to_key THEN <<>>
    ELSE LET device_key == device_id_to_key[device_id] IN
         IF Truthy(device_key) /\ device_key \in DOMAIN devices THEN <<device_key>> ELSE <<>>

\* OnlyTo as it would be if no record were skipped for holding only "to" data.
OnlyToNever(telegram_data_) == FALSE

\* if to_data and not from_data: the record holds only "to" (command) data.
OnlyTo(telegram_data_) ==
    /\ Truthy(GetOr(telegram_data_, "to", EmptyMap))
    /\ ~Truthy(GetOr(telegram_data_, "from", EmptyMap))

\* What _finalize_telegram does with the popped record: the devices, reverse
\* index and signals after it, and whether an exception escaped it.
TelegramOutcome(device_id, telegram_data_) ==
    LET same == [devices |-> devices, device_id_to_key |-> device_id_to_key,
                 emitted |-> <<>>, escaped |-> FALSE]
        from_data == GetOr(telegram_data_, "from", EmptyMap)
        effective_data == IF Truthy(from_data) THEN from_data ELSE telegram_data_
    IN
    IF OnlyTo(telegram_data_) THEN same
    ELSE IF ~IsMap(effective_data) THEN [same EXCEPT !.escaped = TRUE]
    ELSE
    LET direction == Or(GetOr(effective_data, "direction", None),
                        GetOr(telegram_data_, "direction", None))
        friendly_id == Or(Or(GetOr(effective_data, "friendlyId", None),
                             GetOr(telegram_data_, "friendlyId", None)), Str(device_id))
        functions == FunctionsOf(GetOr(effective_data, "functions", EmptyList))
        telegram ==
            Put(Put(Put(Put(Map1("deviceId", Str(device_id)),
                "friendlyId", friendly_id),
                "functions", List(functions)),
                "timestamp", Or(GetOr(effective_data, "timestamp", None),
                                GetOr(telegram_data_, "timestamp", None))),
                "telegramInfo", Or(GetOr(effective_data, "telegramInfo", None),
                                   GetOr(telegram_data_, "telegramInfo", EmptyMap)))
        device_key == friendly_id
        device == EnOceanDevice(device_id, friendly_id, <<>>, Str(""))
        updated == UpdateFromTelegram(device, telegram)
    IN
    IF direction = Str("to") THEN same
    ELSE IF LookupDevice(device_id) # <<>> THEN same
    ELSE IF functions = <<>>
    THEN [devices |-> Store(devices, device_key, device),
          device_id_to_key |-> Store(device_id_to_key, device_id, device_key),
          emitted |-> <<SignalDiscovered(device_key, device)>>,
          escaped |-> FALSE]
    ELSE [devices |-> Store(devices, device_key, updated.dev),
          device_id_to_key |-> Store(device_id_to_key, device_id, device_key),
          emitted |-> IF updated.err THEN <<SignalDiscovered(device_key, device)>>
                      ELSE <<SignalDiscovered(device_key, device),
                             SignalStateUpdate(device_key, updated.dev)>>,
          escaped |-> updated.err]

\* _finalize_telegram(device_id), run by the device's telegram timer.
FinalizeTelegram(device_id) ==
    \E t \in timers :
        /\ t.key = TelegramKey(device_id)
        /\ timers' = timers \ {t}
        /\ IF ~Has(telegram_data, device_id)
           THEN /\ Quiet
                /\ UNCHANGED <<devices, device_id_to_key, telegram_data, pending_telegrams>>
           ELSE LET out == TelegramOutcome(device_id, Get(telegram_data, device_id))
                IN /\ telegram_data' = Pop(telegram_data, device_id)
                   /\ pending_telegrams' = pending_telegrams \ {device_id}
                   /\ devices' = out.devices
                   /\ device_id_to_key' = out.device_id_to_key
                   /\ Sends(out.emitted)
                   /\ escaped' = out.escaped
        /\ FinalizeRan(TelegramKey(device_id),
                       Has(telegram_data, device_id) /\ LookupDevice(device_id) # <<>>)
        /\ UNCHANGED <<setup_pc, life, subscriptions, device_data, device_stream_data,
                       pending_devices, pending_device_streams, discovery_timer,
                       discovery_complete, budget>>

\* ------------------------------------------------------------------------
\* Live deltas: _handle_device_stream_message, _finalize_device_stream
\* ------------------------------------------------------------------------

HandleDeviceStreamMessage(device_id, f) ==
    /\ Subscribed("device_stream")
    /\ budget > 0
    /\ budget' = budget - 1
    /\ LET d1 == IF Has(device_stream_data, device_id) THEN device_stream_data
                 ELSE Put(device_stream_data, device_id, Map1("deviceId", Str(device_id)))
           r == SetNestedProperty(Get(d1, device_id), f.parts, f.raw)
       IN /\ device_stream_data' = Put(d1, device_id, r.n)
          /\ IF r.err THEN UNCHANGED <<timers, pending_device_streams>>
             ELSE /\ timers' = Arm(IF device_id \in pending_device_streams
                                   THEN Cancel(timers, DeviceStreamKey(device_id))
                                   ELSE timers,
                                   DeviceStreamKey(device_id), STREAM_DELAY)
                  /\ pending_device_streams' = pending_device_streams \cup {device_id}
    /\ FragmentArrived(DeviceStreamKey(device_id))
    /\ Quiet
    /\ UNCHANGED <<setup_pc, life, subscriptions, devices, device_id_to_key, device_data,
                   telegram_data, pending_devices, pending_telegrams, discovery_timer,
                   discovery_complete>>

\* The functions a delta carries: state.functions, else the known states keys.
StreamFunctions(stream_data) ==
    LET state_obj == GetOr(stream_data, "state", EmptyMap)
        functions == IF IsMap(state_obj)
                     THEN FunctionsOf(GetOr(state_obj, "functions", EmptyList))
                     ELSE <<>>
        states == GetOr(stream_data, "states", EmptyMap)
    IN
    IF functions # <<>> THEN functions
    ELSE IF Truthy(states) /\ IsMap(states) THEN StateFunctions(states, 1)
    ELSE <<>>

\* StoreForDiscovery as it would be if the delta were dropped.
StoreForDiscoveryDropped(device_id, stream_data) ==
    [device_data |-> device_data, pending_devices |-> pending_devices]

\* A delta for a device not yet discovered is stored for later discovery:
\* self._device_data[device_id] = stream_data; self._pending_devices.add(device_id)
StoreForDiscovery(device_id, stream_data) ==
    [device_data |-> Put(device_data, device_id, stream_data),
     pending_devices |-> pending_devices \cup {device_id}]

\* _finalize_device_stream(device_id), run by the device's live-delta timer.
FinalizeDeviceStream(device_id) ==
    \E t \in timers :
        /\ t.key = DeviceStreamKey(device_id)
        /\ timers' = (timers \ {t}) \cup
                     (IF Has(device_stream_data, device_id) /\ LookupDevice(device_id) = <<>>
                         /\ discovery_timer = "None"
                      THEN {Timer(DiscoveryKey, DISCOVERY_DELAY, TRUE)} ELSE {})
        /\ IF ~Has(device_stream_data, device_id)
           THEN /\ Quiet
                /\ UNCHANGED <<devices, device_data, device_stream_data, pending_devices,
                               pending_device_streams, discovery_timer>>
           ELSE
           LET stream_data == Get(device_stream_data, device_id)
               found == LookupDevice(device_id)
               functions == StreamFunctions(stream_data)
           IN
           /\ device_stream_data' = Pop(device_stream_data, device_id)
           /\ pending_device_streams' = pending_device_streams \ {device_id}
           /\ IF found = <<>>
              THEN \* not yet discovered: stored for later discovery
                   /\ device_data' = StoreForDiscovery(device_id, stream_data).device_data
                   /\ pending_devices' = StoreForDiscovery(device_id, stream_data).pending_devices
                   /\ discovery_timer' = "Set"
                   /\ Quiet
                   /\ UNCHANGED devices
              ELSE /\ IF functions = <<>>
                      THEN Quiet /\ UNCHANGED devices
                      ELSE LET updated == UpdateFromTelegram(devices[found[1]],
                                              Map1("functions", List(functions))).dev
                           IN /\ devices' = [devices EXCEPT ![found[1]] = updated]
                              /\ Sends(<<SignalStateUpdate(found[1], updated)>>)
                              /\ escaped' = FALSE
                   /\ UNCHANGED <<device_data, pending_devices, discovery_timer>>
        /\ FinalizeRan(DeviceStreamKey(device_id),
                       Has(device_stream_data, device_id) /\ LookupDevice(device_id) # <<>>)
        /\ UNCHANGED <<setup_pc, life, subscriptions, device_id_to_key, telegram_data,
                       pending_telegrams, discovery_complete, budget>>

\* ------------------------------------------------------------------------
\* Request/response queries
\* ------------------------------------------------------------------------

QueryKinds == {"profile", "configuration", "parameters"}

\* The caller starts a query: the coroutine runs to its first await, the
\* subscribe of the answer topic.
QueryCall(kind, device_id) ==
    /\ q_pc = "idle"
    /\ q_kind' = kind
    /\ q_device' = device_id
    /\ q_pc' = "subscribing"
    /\ q_calls' = Append(q_calls, "subscribe")
    /\ UNCHANGED <<q_active, q_timer, q_event, q_result, q_profile, q_timed_out, q_responses>>

\* The subscribe returns unsub; the profile query arms its timer
\* (async_call_later(10, unsub)); the request is published (the next await).
QuerySubscribed ==
    /\ q_pc = "subscribing"
    /\ q_active' = TRUE
    /\ q_timer' = (q_kind = "profile")
    /\ q_calls' = Append(q_calls, "publish")
    /\ q_pc' = "publishing"
    /\ UNCHANGED <<q_kind, q_device, q_event, q_result, q_profile, q_timed_out, q_responses>>

\* The publish returns, or raises: the profile query then ends; the other two
\* enter try: await asyncio.wait_for(event.wait(), timeout=10.0) when it returned.
QueryPublished(ok) ==
    /\ q_pc = "publishing"
    /\ q_pc' = IF ~ok THEN "raised"
               ELSE IF q_kind = "profile" THEN "returned" ELSE "waiting"
    /\ UNCHANGED <<q_kind, q_device, q_active, q_timer, q_event, q_result, q_profile,
                   q_timed_out, q_calls, q_responses>>

\* A message on the answer topic: handle_profile stores valid JSON on the device
\* with the queried id; handle_response stores valid JSON as the result and
\* sets the event.
QueryResponse(valid) ==
    /\ q_active
    /\ q_responses < MaxResponses
    /\ q_responses' = q_responses + 1
    /\ IF q_kind = "profile"
       THEN /\ q_profile' = (q_profile \/ (valid /\ \E k \in DOMAIN devices :
                                                     devices[k].device_id = q_device))
            /\ UNCHANGED <<q_result, q_event>>
       ELSE /\ q_result' = IF valid THEN "data" ELSE q_result
            /\ q_event' = TRUE
            /\ UNCHANGED q_profile
    /\ UNCHANGED <<q_kind, q_device, q_pc, q_active, q_timer, q_timed_out, q_calls>>

\* QueryResume as it would be without the finally clause.
QueryResumeKeepsSubscription ==
    /\ q_pc = "waiting"
    /\ q_event
    /\ q_pc' = "returned"
    /\ UNCHANGED <<q_kind, q_device, q_active, q_timer, q_event, q_result, q_profile,
                   q_timed_out, q_calls, q_responses>>

\* wait_for returns because the event is set; finally: unsub(); return result.
QueryResume ==
    /\ q_pc = "waiting"
    /\ q_event
    /\ q_active' = FALSE
    /\ q_calls' = Append(q_calls, "unsubscribe")
    /\ q_pc' = "returned"
    /\ UNCHANGED <<q_kind, q_device, q_timer, q_event, q_result, q_profile, q_timed_out,
                   q_responses>>

\* QueryTimeout as it would be if TimeoutError were not caught.
QueryTimeoutRaises ==
    /\ q_pc = "waiting"
    /\ ~q_event
    /\ q_timed_out' = TRUE
    /\ q_active' = FALSE
    /\ q_calls' = Append(q_calls, "unsubscribe")
    /\ q_pc' = "raised"
    /\ UNCHANGED <<q_kind, q_device, q_timer, q_event, q_result, q_profile, q_responses>>

\* wait_for raises TimeoutError, which is caught; finally: unsub(); return result.
QueryTimeout ==
    /\ q_pc = "waiting"
    /\ ~q_event
    /\ q_timed_out' = TRUE
    /\ q_active' = FALSE
    /\ q_calls' = Append(q_calls, "unsubscribe")
    /\ q_pc' = "returned"
    /\ UNCHANGED <<q_kind, q_device, q_timer, q_event, q_result, q_profile, q_responses>>

\* The profile query's timer fires: lambda _: unsub().
QueryTimerFires ==
    /\ q_timer
    /\ q_timer' = FALSE
    /\ q_active' = FALSE
    /\ q_calls' = Append(q_calls, "unsubscribe")
    /\ UNCHANGED <<q_kind, q_device, q_pc, q_event, q_result, q_profile, q_timed_out,
                   q_responses>>

\* The caller, done with a query whose subscription is gone, may start another.
QueryAgain ==
    /\ q_pc \in {"returned", "raised"}
    /\ ~q_active
    /\ ~q_timer
    /\ q_kind' = "none"
    /\ q_device' = ""
    /\ q_pc' = "idle"
    /\ q_event' = FALSE
    /\ q_result' = "None"
    /\ q_timed_out' = FALSE
    /\ q_calls' = <<>>
    /\ q_responses' = 0
    /\ UNCHANGED <<q_active, q_timer, q_profile>>

\* ------------------------------------------------------------------------
\* Capabilities of a device (enocean_device.py, const.EEP_MAPPINGS)
\* ------------------------------------------------------------------------

\* The entity type of each equipment profile of const.EEP_MAPPINGS.
EEP_MAPPINGS ==
    [e \in {"D2-01-00", "D2-01-01", "D2-01-04", "D2-01-05", "D2-01-08", "D2-01-09",
            "D2-01-0C", "D2-01-0D", "D2-01-0E", "D2-01-11"} |-> "switch"]
    @@ [e \in {"D2-01-02", "D2-01-03", "D2-01-06", "D2-01-07", "D2-01-0A", "D2-01-0B",
               "D2-01-0F", "D2-01-10", "D2-01-12", "A5-38-08", "A5-38-09"} |-> "light"]
    @@ [e \in {"D2-05-00", "D2-05-01", "D2-05-02"} |-> "cover"]
    @@ [e \in {"F6-02-01", "F6-02-02", "F6-02-03", "F6-03-01", "F6-03-02"} |-> "event"]

\* primary_eep: the "eep" of the first entry, None without one.
PrimaryEep(device) ==
    IF device.eeps # <<>> THEN GetOr(device.eeps[1], "eep", None) ELSE None

\* entity_type: "" stands for None.
EntityType(device) ==
    LET eep == PrimaryEep(device) IN
    IF Truthy(eep) /\ IsStr(eep) /\ eep.v \in DOMAIN EEP_MAPPINGS
    THEN EEP_MAPPINGS[eep.v] ELSE ""

\* is_dimmable
IsDimmable(device) ==
    LET eep == PrimaryEep(device) IN
    /\ Truthy(eep)
    /\ eep \in {Str(e) : e \in {"D2-01-02", "D2-01-03", "D2-01-06", "D2-01-07", "D2-01-0A",
                                "D2-01-0B", "D2-01-0F", "D2-01-10", "D2-01-12", "A5-38-08"}}

\* channel_count
ChannelCount(device) ==
    LET eep == PrimaryEep(device) IN
    IF ~Truthy(eep) THEN 1
    ELSE IF eep \in {Str(e) : e \in {"D2-01-04", "D2-01-05", "D2-01-06", "D2-01-07"}} THEN 2
    ELSE IF eep \in {Str(e) : e \in {"D2-01-08", "D2-01-09", "D2-01-0A", "D2-01-0B"}} THEN 4
    ELSE IF eep \in {Str(e) : e \in {"D2-01-0D", "D2-01-0E", "D2-01-0F", "D2-01-10"}} THEN 8
    ELSE 1

\* ------------------------------------------------------------------------
\* Command Encoder (coordinator.py) and the entities that call it
\* (light.py, switch.py, cover.py)
\* ------------------------------------------------------------------------

\* The largest channel index a caller of the coordinator passes.
MaxChannel == 2

\* The equipment profiles of the devices an entity is added for.
EntityEeps == {"D2-01-00", "D2-01-04", "D2-01-02", "D2-01-06", "A5-38-09", "D2-05-00"}

\* The brightness values (0..255) a light is turned on with.
Brightnesses == {1, 128, 255}

\* The percentages a caller of the coordinator passes as brightness, position
\* or tilt.
Percentages == {0, 50, 100}

\* {"key": key, "value": value}
Function(key, value) == Put(Map1("key", Str(key)), "value", Str(value))

\* AddChannelIfNeeded as it would be if the channel were always appended.
AddChannelAlways(functions, channel) ==
    Append(functions, Function("channel", ToString(channel)))

\* _add_channel_if_needed
AddChannelIfNeeded(functions, channel) ==
    IF channel > 0 THEN Append(functions, Function("channel", ToString(channel)))
    ELSE functions

\* The function list async_turn_on builds; brightness is NoNumber for None.
TurnOnFunctions(channel, brightness, is_dimmable) ==
    AddChannelIfNeeded(
        IF brightness # NoNumber THEN <<Function("dimValue", ToString(brightness[1]))>>
        ELSE IF is_dimmable THEN <<Function("dimValue", "100")>>
        ELSE <<Function("switch", "on")>>,
        channel)

\* The function list async_turn_off builds.
TurnOffFunctions(channel, is_dimmable) ==
    AddChannelIfNeeded(
        IF is_dimmable THEN <<Function("dimValue", "0")>> ELSE <<Function("switch", "off")>>,
        channel)

\* The function lists of the cover commands.
SetCoverPositionFunctions(position, channel) ==
    AddChannelIfNeeded(<<Function("position", ToString(position))>>, channel)
SetCoverTiltFunctions(tilt, channel) ==
    AddChannelIfNeeded(<<Function("angle", ToString(tilt))>>, channel)
StopCoverFunctions(channel) ==
    AddChannelIfNeeded(<<Function("position", "stop")>>, channel)

\* async_send_command: the state message is published; a publish that raises
\* is logged and the exception swallowed.  No Device is touched.
AsyncSendCommand(functions, ok) ==
    /\ c_functions' = functions
    /\ c_published' = ok

\* The coordinator's command operations.
AsyncTurnOn(device_id, channel, brightness, is_dimmable, ok) ==
    /\ c_op' = [name |-> "turn_on", device_id |-> device_id, channel |-> channel,
                value |-> brightness, is_dimmable |-> is_dimmable]
    /\ AsyncSendCommand(TurnOnFunctions(channel, brightness, is_dimmable), ok)

AsyncTurnOff(device_id, channel, is_dimmable, ok) ==
    /\ c_op' = [name |-> "turn_off", device_id |-> device_id, channel |-> channel,
                value |-> NoNumber, is_dimmable |-> is_dimmable]
    /\ AsyncSendCommand(TurnOffFunctions(channel, is_dimmable), ok)

AsyncSetCoverPosition(device_id, position, channel, ok) ==
    /\ c_op' = [name |-> "set_cover_position", device_id |-> device_id, channel |-> channel,
                value |-> <<position>>, is_dimmable |-> FALSE]
    /\ AsyncSendCommand(SetCoverPositionFunctions(position, channel), ok)

AsyncSetCoverTilt(device_id, tilt, channel, ok) ==
    /\ c_op' = [name |-> "set_cover_tilt", device_id |-> device_id, channel |-> channel,
                value |-> <<tilt>>, is_dimmable |-> FALSE]
    /\ AsyncSendCommand(SetCoverTiltFunctions(tilt, channel), ok)

AsyncStopCover(device_id, channel, ok) ==
    /\ c_op' = [name |-> "stop_cover", device_id |-> device_id, channel |-> channel,
                value |-> NoNumber, is_dimmable |-> FALSE]
    /\ AsyncSendCommand(StopCoverFunctions(channel), ok)

\* A caller other than the entities invokes a command operation of the
\* coordinator with arguments of its own.
CallerCommand(ok) ==
    /\ \E channel \in 0..MaxChannel :
        \/ \E brightness \in {NoNumber} \cup {<<p>> : p \in Percentages},
              is_dimmable \in BOOLEAN :
               AsyncTurnOn("A", channel, brightness, is_dimmable, ok)
        \/ \E is_dimmable \in BOOLEAN : AsyncTurnOff("A", channel, is_dimmable, ok)
        \/ \E p \in Percentages : AsyncSetCoverPosition("A", p, channel, ok)
        \/ \E p \in Percentages : AsyncSetCoverTilt("A", p, channel, ok)
        \/ AsyncStopCover("A", channel, ok)
    /\ c_via' = "caller"
    /\ UNCHANGED <<e_kind, e_device, e_channel>>

\* async_add_light / async_add_switch / async_add_cover on a discovered
\* device: one entity per channel of the device, of the platform its entity
\* type names.
AddEntity(eep, channel_id) ==
    LET device == EnOceanDevice("A", Str("K"), <<Map1("eep", Str(eep))>>, Str("")) IN
    /\ e_kind = "none"
    /\ EntityType(device) \in {"light", "switch", "cover"}
    /\ channel_id \in 0..(ChannelCount(device) - 1)
    /\ e_kind' = EntityType(device)
    /\ e_device' = device
    /\ e_channel' = channel_id
    /\ UNCHANGED <<c_op, c_via, c_functions, c_published>>

\* The entity's device with channel written by an optimistic update.
WithChannel(channel) ==
    [e_device EXCEPT !.channels =
        [GetOrCreateChannel(e_device.channels, e_channel) EXCEPT ![e_channel] = channel]]

\* The channel an optimistic update writes:
\* self._device.get_or_create_channel(self._channel_id)
OwnChannel == GetOrCreateChannel(e_device.channels, e_channel)[e_channel]

\* OpusGreenNetLight.async_turn_on(brightness=...): brightness is NoNumber
\* without ATTR_BRIGHTNESS.
LightTurnOn(brightness, ok) ==
    LET dimmed == brightness # NoNumber /\ IsDimmable(e_device)
        brightness_pct == (brightness[1] * 100) \div 255
    IN
    /\ e_kind = "light"
    /\ e_device' =
         IF dimmed
         THEN WithChannel([OwnChannel EXCEPT !.brightness = <<brightness_pct>>,
                                             !.is_on = (brightness_pct > 0)])
         ELSE WithChannel([OwnChannel EXCEPT
                             !.is_on = TRUE,
                             !.brightness = IF IsDimmable(e_device) THEN <<100>> ELSE @])
    /\ AsyncTurnOn(e_device.device_id, e_channel,
                   IF dimmed THEN <<brightness_pct>> ELSE NoNumber,
                   IsDimmable(e_device), ok)
    /\ c_via' = "light"
    /\ UNCHANGED <<e_kind, e_channel>>

\* OpusGreenNetLight.async_turn_off
LightTurnOff(ok) ==
    /\ e_kind = "light"
    /\ e_device' = WithChannel([OwnChannel EXCEPT
                                  !.is_on = FALSE,
                                  !.brightness = IF IsDimmable(e_device) THEN <<0>> ELSE @])
    /\ AsyncTurnOff(e_device.device_id, e_channel, IsDimmable(e_device), ok)
    /\ c_via' = "light"
    /\ UNCHANGED <<e_kind, e_channel>>

\* OpusGreenNetSwitch.async_turn_on: is_dimmable is left at its default.
SwitchTurnOn(ok) ==
    /\ e_kind = "switch"
    /\ e_device' = WithChannel([OwnChannel EXCEPT !.is_on = TRUE])
    /\ AsyncTurnOn(e_device.device_id, e_channel, NoNumber, FALSE, ok)
    /\ c_via' = "switch"
    /\ UNCHANGED <<e_kind, e_channel>>

\* OpusGreenNetSwitch.async_turn_off
SwitchTurnOff(ok) ==
    /\ e_kind = "switch"
    /\ e_device' = WithChannel([OwnChannel EXCEPT !.is_on = FALSE])
    /\ AsyncTurnOff(e_device.device_id, e_channel, FALSE, ok)
    /\ c_via' = "switch"
    /\ UNCHANGED <<e_kind, e_channel>>

\* self._device_key of an entity: device.friendly_id or device.device_id
EntityDeviceKey == Or(e_device.friendly_id, Str(e_device.device_id)).v

\* CoverCommand as it would be if the cover entity wrote the position it asks
\* for into its channel before sending.
CoverCommandOptimistic(ok) ==
    /\ e_kind = "cover"
    /\ AsyncSetCoverPosition(EntityDeviceKey, 0, e_channel, ok)
    /\ e_device' = WithChannel([OwnChannel EXCEPT !.position = <<0>>])
    /\ c_via' = "cover"
    /\ UNCHANGED <<e_kind, e_channel>>

\* OpusGreenNetCover: async_set_cover_position (async_open_cover and
\* async_close_cover are the positions 100 and 0), async_set_cover_tilt_position
\* and async_stop_cover.  The Device is only read.
CoverCommand(ok) ==
    /\ e_kind = "cover"
    /\ \/ \E p \in Percentages : AsyncSetCoverPosition(EntityDeviceKey, p, e_channel, ok)
       \/ \E p \in Percentages : AsyncSetCoverTilt(EntityDeviceKey, p, e_channel, ok)
       \/ AsyncStopCover(EntityDeviceKey, e_channel, ok)
    /\ c_via' = "cover"
    /\ UNCHANGED <<e_kind, e_device, e_channel>>

\* The function lists of the live deltas the coordinator applies to the
\* entity's Device.
DeltaFunctions ==
    {<<Put(Map1("key", Str("switch")), "value", Str("on"))>>,
     <<Put(Map1("key", Str("dimValue")), "value", Int_(50))>>,
     <<Put(Map1("key", Str("position")), "value", Int_(50))>>}

\* The coordinator applies a live delta to the entity's Device
\* (device.update_from_telegram in _finalize_device_stream) and signals it;
\* _handle_state_update of the entity takes the Device of the signal.
HandleStateUpdate(functions) ==
    /\ e_kind # "none"
    /\ e_device' = UpdateFromTelegram(e_device, Map1("functions", List(functions))).dev
    /\ UNCHANGED <<e_kind, e_channel, c_op, c_via, c_functions, c_published>>

\* ------------------------------------------------------------------------
\* Round trip of the Path Tree Builder: an object's leaves, as the gateway
\* publishes them one topic per leaf, applied to an empty tree
\* ------------------------------------------------------------------------

\* The payload text of a scalar leaf.
Text(n) ==
    CASE n.t = "str" -> n.v
      [] n.t = "int" -> ToString(n.v)
      [] n.t = "bool" -> IF n.v THEN "true" ELSE "false"
      [] n.t = "float" -> CHOOSE s \in FloatLiterals : FloatOf(s) = n

RECURSIVE Leaves(_, _)
\* The flattened form of a value at path prefix: one (path, text) per scalar
\* leaf, a map entry adding its key and a list entry its index to the path.
Leaves(n, prefix) ==
    CASE n.t = "map" ->
           UNION {Leaves(n.e[i], Append(prefix, n.k[i])) : i \in 1..Len(n.k)}
      [] n.t = "list" ->
           UNION {Leaves(n.e[i], Append(prefix, ToString(i - 1))) : i \in 1..Len(n.e)}
      [] OTHER -> {Fragment(prefix, Text(n))}

RECURSIVE SameValue(_, _)
\* a == b of two Python values: dicts compare without regard to the order of
\* their keys.
SameValue(a, b) ==
    IF a.t # b.t THEN FALSE
    ELSE CASE a.t = "map" ->
                /\ {a.k[i] : i \in 1..Len(a.k)} = {b.k[i] : i \in 1..Len(b.k)}
                /\ \A i \in 1..Len(a.k) : SameValue(a.e[i], Get(b, a.k[i]))
           [] a.t = "list" ->
                /\ Len(a.e) = Len(b.e)
                /\ \A i \in 1..Len(a.e) : SameValue(a.e[i], b.e[i])
           [] OTHER -> a = b

\* The objects flattened: maps of scalars, a list of maps, a list of scalars,
\* a list directly inside a list, and a list of maps two maps down.
Objects ==
    {Put(Map1("friendlyId", Str("K")), "on", Bool(TRUE)),
     Map1("eeps", List(<<Map1("eep", Str("D2-01-00")), Map1("eep", Str("D2-01-02"))>>)),
     Map1("values", List(<<Int_(1), Int_(2), Int_(50)>>)),
     Map1("grid", List(<<List(<<Int_(1), Int_(2)>>)>>)),
     Map1("state", Map1("functions",
          List(<<Put(Map1("key", Str("dimValue")), "value", Int_(50))>>))),
     Put(Map1("power", Float(15)), "dbm", Int_(-5))}

\* The payload texts parsed.
Texts ==
    TrueForms \cup FalseForms \cup IntLiterals \cup SignedLiterals \cup FloatLiterals
    \cup {"", "on", "K", "D2-01-00", "truely", "1.5.0"}

\* An object is flattened; its leaves are to be applied to an empty tree.
FlattenObject(obj) ==
    /\ t_leaves = {}
    /\ t_obj' = obj
    /\ t_leaves' = Leaves(obj, <<>>)
    /\ t_tree' = EmptyMap
    /\ t_err' = FALSE
    /\ UNCHANGED <<t_raw, t_value>>

\* One of the remaining leaves arrives and is set in the tree
\* (_set_nested_property, whose exception the message handler catches).
RebuildLeaf(f) ==
    /\ f \in t_leaves
    /\ t_leaves' = t_leaves \ {f}
    /\ t_tree' = SetNestedProperty(t_tree, f.parts, f.raw).n
    /\ t_err' = (t_err \/ SetNestedProperty(t_tree, f.parts, f.raw).err)
    /\ UNCHANGED <<t_obj, t_raw, t_value>>

\* _parse_value(raw)
ParseText(raw) ==
    /\ t_raw' = raw
    /\ t_value' = ParseValue(raw)
    /\ UNCHANGED <<t_obj, t_leaves, t_tree, t_err>>

\* ------------------------------------------------------------------------
\* Gateway system info: _handle_system_info
\* ------------------------------------------------------------------------

\* json.loads(payload) of the getInfo answers drawn.
SystemInfoPayloads == {Map1("version", Str("1.4")), Invalid}

\* HandleSystemInfo as it would be if the payload were stored unparsed.
HandleSystemInfoUnparsed(data) ==
    /\ Subscribed("system_info")
    /\ budget > 0
    /\ budget' = budget - 1
    /\ gateway_info' = data
    /\ Quiet
    /\ UNCHANGED <<setup_pc, life, subscriptions, devices, device_id_to_key, device_data,
                   telegram_data, device_stream_data, pending_devices, pending_telegrams,
                   pending_device_streams, discovery_timer, discovery_complete, timers,
                   finalize_runs, finalize_found>>

\* _handle_system_info: the parsed payload replaces gateway_info; a payload
\* that is no JSON is logged and dropped.
HandleSystemInfo(data) ==
    /\ Subscribed("system_info")
    /\ budget > 0
    /\ budget' = budget - 1
    /\ gateway_info' = IF data = Invalid THEN gateway_info ELSE data
    /\ Quiet
    /\ UNCHANGED <<setup_pc, life, subscriptions, devices, device_id_to_key, device_data,
                   telegram_data, device_stream_data, pending_devices, pending_telegrams,
                   pending_device_streams, discovery_timer, discovery_complete, timers,
                   finalize_runs, finalize_found>>

\* stream/telegram/<id>/<path> leaves of records with "from" and "to" data, a
\* scalar "from" leaf and a top-level direction.
TelegramRecordFragments ==
    {Fragment(<<"from", "functions", "0", "key">>, "switch"),
     Fragment(<<"from", "functions", "0", "value">>, "on"),
     Fragment(<<"from">>, "x"),
     Fragment(<<"to", "functions", "0", "key">>, "switch"),
     Fragment(<<"to", "friendlyId">>, "T"),
     Fragment(<<"direction">>, "to")}

\* History of a step: the message it delivered, none for a timer or setup.
Received(topic, valid) == received' = [topic |-> topic, valid |-> valid]
NoMessage == Received("none", TRUE)

\* ------------------------------------------------------------------------
\* Specifications
\* ------------------------------------------------------------------------

vars == <<coordVars, queryVars, cmdVars, treeVars, inboundVars, timeVars, updateVars>>

\* What each specification leaves alone.
nonCoordVars == <<queryVars, cmdVars, treeVars, inboundVars, timeVars, updateVars>>
nonQueryVars == <<coordVars, cmdVars, treeVars, inboundVars, timeVars, updateVars>>
nonCmdVars == <<coordVars, queryVars, treeVars, inboundVars, timeVars, updateVars>>
nonTreeVars == <<coordVars, queryVars, cmdVars, inboundVars, timeVars, updateVars>>
nonInboundVars == <<queryVars, cmdVars, treeVars, timeVars, updateVars>>
nonTimeVars == <<queryVars, cmdVars, treeVars, inboundVars, updateVars>>
nonUpdateVars == <<coordVars, queryVars, cmdVars, treeVars, inboundVars, timeVars>>
nonAnswerVars == <<cmdVars, treeVars, inboundVars, timeVars, updateVars>>

\* The coordinator: setup, the three streams, discovery, unload.
Next ==
    \/ SetupStep /\ UNCHANGED nonCoordVars
    \/ Unload /\ UNCHANGED nonCoordVars
    \/ \E d \in DeviceIds, f \in DeviceFragments :
           HandleDevicePropertyMessage(d, f) /\ UNCHANGED nonCoordVars
    \/ \E p \in AnswerPayloads : HandleGetAnswerDevices(p) /\ UNCHANGED nonCoordVars
    \/ FinalizeDiscovery /\ UNCHANGED nonCoordVars
    \/ \E d \in DeviceIds, f \in TelegramFragments :
           HandleTelegramPropertyMessage(d, f) /\ UNCHANGED nonCoordVars
    \/ \E d \in DeviceIds : FinalizeTelegram(d) /\ UNCHANGED nonCoordVars
    \/ \E d \in DeviceIds, f \in DeviceStreamFragments :
           HandleDeviceStreamMessage(d, f) /\ UNCHANGED nonCoordVars
    \/ \E d \in DeviceIds : FinalizeDeviceStream(d) /\ UNCHANGED nonCoordVars

Spec == Init /\ [][Next]_vars

\* The correlated queries of a coordinator that has no device yet.
NextQuery ==
    \/ \E kind \in QueryKinds, d \in DeviceIds : QueryCall(kind, d) /\ UNCHANGED nonQueryVars
    \/ QuerySubscribed /\ UNCHANGED nonQueryVars
    \/ \E ok \in BOOLEAN : QueryPublished(ok) /\ UNCHANGED nonQueryVars
    \/ \E valid \in BOOLEAN : QueryResponse(valid) /\ UNCHANGED nonQueryVars
    \/ QueryResume /\ UNCHANGED nonQueryVars
    \/ QueryTimeout /\ UNCHANGED nonQueryVars
    \/ QueryTimerFires /\ UNCHANGED nonQueryVars
    \/ QueryAgain /\ UNCHANGED nonQueryVars

SpecQuery == Init /\ [][NextQuery]_vars

\* The commands: entities added for discovered devices, their operations, the
\* coordinator's command operations called directly, and live deltas.
NextCommand ==
    \/ \E eep \in EntityEeps, channel_id \in 0..MaxChannel :
           AddEntity(eep, channel_id) /\ UNCHANGED nonCmdVars
    \/ \E ok \in BOOLEAN : CallerCommand(ok) /\ UNCHANGED nonCmdVars
    \/ \E brightness \in {NoNumber} \cup {<<b>> : b \in Brightnesses}, ok \in BOOLEAN :
           LightTurnOn(brightness, ok) /\ UNCHANGED nonCmdVars
    \/ \E ok \in BOOLEAN : LightTurnOff(ok) /\ UNCHANGED nonCmdVars
    \/ \E ok \in BOOLEAN : SwitchTurnOn(ok) /\ UNCHANGED nonCmdVars
    \/ \E ok \in BOOLEAN : SwitchTurnOff(ok) /\ UNCHANGED nonCmdVars
    \/ \E ok \in BOOLEAN : CoverCommand(ok) /\ UNCHANGED nonCmdVars
    \/ \E functions \in DeltaFunctions : HandleStateUpdate(functions) /\ UNCHANGED nonCmdVars

SpecCommand == Init /\ [][NextCommand]_vars

\* The Path Tree Builder and the Value Parser on their own.
NextTree ==
    \/ \E obj \in Objects : FlattenObject(obj) /\ UNCHANGED nonTreeVars
    \/ \E f \in t_leaves : RebuildLeaf(f) /\ UNCHANGED nonTreeVars
    \/ \E raw \in Texts : ParseText(raw) /\ UNCHANGED nonTreeVars

SpecTree == Init /\ [][NextTree]_vars

\* The coordinator with one device's telegram and live-delta streams, the
\* getAnswer/devices and system-info answers, and the history of what each
\* step received.
NextInbound ==
    \/ SetupStep /\ NoMessage /\ UNCHANGED <<gateway_info, last_record, nonInboundVars>>
    \/ \E p \in AnswerPayloads :
           /\ HandleGetAnswerDevices(p)
           /\ Received("get_answer", p # Invalid)
           /\ UNCHANGED <<gateway_info, last_record, nonInboundVars>>
    \/ \E p \in SystemInfoPayloads :
           /\ HandleSystemInfo(p)
           /\ Received("system_info", p # Invalid)
           /\ UNCHANGED <<last_record, nonInboundVars>>
    \/ FinalizeDiscovery /\ NoMessage /\ UNCHANGED <<gateway_info, last_record, nonInboundVars>>
    \/ \E f \in TelegramRecordFragments :
           /\ HandleTelegramPropertyMessage("A", f)
           /\ Received("telegram", TRUE)
           /\ UNCHANGED <<gateway_info, last_record, nonInboundVars>>
    \/ /\ FinalizeTelegram("A")
       /\ NoMessage
       /\ last_record' = GetOr(telegram_data, "A", None)
       /\ UNCHANGED <<gateway_info, nonInboundVars>>
    \/ \E f \in DeviceStreamFragments :
           /\ HandleDeviceStreamMessage("A", f)
           /\ Received("device_stream", TRUE)
           /\ UNCHANGED <<gateway_info, last_record, nonInboundVars>>
    \/ FinalizeDeviceStream("A") /\ NoMessage
          /\ UNCHANGED <<gateway_info, last_record, nonInboundVars>>

SpecInbound == Init /\ [][NextInbound]_vars

\* Time passes by dt: no armed timer is left behind (the event loop runs a
\* timer when it is due), and the clock stops at MaxTime.
Tick(dt) ==
    /\ now + dt <= MaxTime
    /\ \A t \in timers : now + dt <= t.due
    /\ now' = now + dt
    /\ UNCHANGED <<coordVars, window_end, first_finalize_at>>

\* The largest number of function lists applied to the Device in one behaviour.
MaxUpdates == 2

\* The functions of the lists applied: values as the Value Parser or
\* json.loads gives them, some that do not convert to their field's number.
UpdateFunctions ==
    {Put(Map1("key", Str(f[1])), "value", f[2]) :
        f \in {<<"switch", Str("on")>>,
               <<"dimValue", Int_(50)>>, <<"dimValue", Str("abc")>>,
               <<"position", Int_(100)>>, <<"position", Str("stop")>>,
               <<"angle", Float(15)>>, <<"angle", None>>,
               <<"energy", Float(15)>>, <<"power", Str("x")>>,
               <<"channel", Int_(1)>>, <<"channel", Str("x")>>}}

\* The function lists applied: one or two functions.
UpdateFunctionLists ==
    {<<f>> : f \in UpdateFunctions} \cup {<<f, g>> : f, g \in UpdateFunctions}

\* device.update_from_telegram({"functions": functions})
UpdateDevice(functions) ==
    /\ u_updates < MaxUpdates
    /\ u_updates' = u_updates + 1
    /\ u_before' = u_device
    /\ u_functions' = functions
    /\ u_device' = UpdateFromTelegram(u_device, Map1("functions", List(functions))).dev

\* The stream/devices/<id>/<path> leaves that arrive while the clock runs.
TimedFragments ==
    {Fragment(<<"friendlyId">>, "K"), Fragment(<<"states", "switch">>, "on")}

\* The discovery stream of one device with the clock running: a timer fires
\* when it is due, a message may arrive at any time.
NextTimed ==
    \/ /\ SetupStep
       /\ window_end' = IF life' = "ready" THEN <<now + INITIAL_DISCOVERY_DELAY>>
                         ELSE window_end
       /\ UNCHANGED <<now, first_finalize_at, nonTimeVars>>
    \/ \E f \in TimedFragments :
           HandleDevicePropertyMessage("A", f) /\ UNCHANGED <<timeVars, nonTimeVars>>
    \/ \E p \in AnswerPayloads :
           HandleGetAnswerDevices(p) /\ UNCHANGED <<timeVars, nonTimeVars>>
    \/ /\ FinalizeDiscovery
       /\ \A t \in timers \ timers' : t.due <= now
       /\ first_finalize_at' = IF window_end # <<>> /\ first_finalize_at = <<>>
                                THEN <<now>> ELSE first_finalize_at
       /\ UNCHANGED <<now, window_end, nonTimeVars>>
    \/ \E dt \in {DISCOVERY_DELAY \div 2} : Tick(dt) /\ UNCHANGED nonTimeVars

SpecTimed == Init /\ [][NextTimed]_vars

\* Function lists applied to one Device.
NextUpdate ==
    \E functions \in UpdateFunctionLists : UpdateDevice(functions) /\ UNCHANGED nonUpdateVars

SpecUpdate == Init /\ [][NextUpdate]_vars

\* The query kinds whose answer topic lies under getAnswer/devices/, the topic
\* filter of the coordinator's own getAnswer subscription
\* (getAnswer/devices/<id>/parameters against getAnswer/devices/#).
SharedAnswerKinds == {"parameters"}

\* json.loads(payload) of the answers to a correlated query drawn: an object
\* without and one with a deviceId, an empty array, and a payload that is no
\* JSON.
QueryAnswerPayloads ==
    {Map1("parameters", EmptyList),
     Put(Map1("deviceId", Str("A")), "parameters", EmptyList),
     EmptyList,
     Invalid}

\* The broker delivers the answer to a correlated query: to the query's own
\* handler, and to _handle_get_answer_devices when the answer topic matches
\* the coordinator's subscription.
QueryAnswerDelivered(payload) ==
    /\ QueryResponse(payload # Invalid)
    /\ IF q_kind \in SharedAnswerKinds
       THEN HandleGetAnswerDevices(payload)
       ELSE UNCHANGED coordVars

\* The coordinator with the snapshot stream of one device and, once
\* async_setup has returned it to its callers, the correlated queries.
NextAnswer ==
    \/ SetupStep /\ UNCHANGED <<queryVars, nonAnswerVars>>
    \/ \E f \in TimedFragments :
           HandleDevicePropertyMessage("A", f) /\ UNCHANGED <<queryVars, nonAnswerVars>>
    \/ FinalizeDiscovery /\ UNCHANGED <<queryVars, nonAnswerVars>>
    \/ \E kind \in QueryKinds :
           life = "ready" /\ QueryCall(kind, "A") /\ UNCHANGED <<coordVars, nonAnswerVars>>
    \/ QuerySubscribed /\ UNCHANGED <<coordVars, nonAnswerVars>>
    \/ \E ok \in BOOLEAN : QueryPublished(ok) /\ UNCHANGED <<coordVars, nonAnswerVars>>
    \/ \E payload \in QueryAnswerPayloads :
           QueryAnswerDelivered(payload) /\ UNCHANGED nonAnswerVars
    \/ QueryResume /\ UNCHANGED <<coordVars, nonAnswerVars>>
    \/ QueryTimeout /\ UNCHANGED <<coordVars, nonAnswerVars>>
    \/ QueryTimerFires /\ UNCHANGED <<coordVars, nonAnswerVars>>

SpecAnswer == Init /\ [][NextAnswer]_vars

\* The lifecycle: an async_setup that may fail at any of its awaits, the
\* snapshot stream of one device while and after it runs, and the unload.
NextSetup ==
    \/ SetupStep /\ UNCHANGED nonCoordVars
    \/ SetupFails /\ UNCHANGED nonCoordVars
    \/ \E f \in TimedFragments :
           HandleDevicePropertyMessage("A", f) /\ UNCHANGED nonCoordVars
    \/ FinalizeDiscovery /\ UNCHANGED nonCoordVars
    \/ Unload /\ UNCHANGED nonCoordVars

SpecSetup == Init /\ [][NextSetup]_vars

\* ------------------------------------------------------------------------
\* Properties
\* ------------------------------------------------------------------------

\* C1: for every stream key, once its fragments have stopped, the finalize
\* routine of the key runs exactly once: never a second time before the next
\* fragment of the key.
C1_FinalizeOncePerQuietPeriod == \A k \in StreamKeys : finalize_runs[k] <= 1

\* C2: a discovery finalize (the only step that resolves devices) leaves every
\* Device that was already in the map under its key with exactly the channels
\* it had: none is removed, none changes its on/off, brightness, position or
\* tilt, so the "states" of the re-resolution data are not applied.
C2_ReResolutionKeepsChannels ==
    [][finalize_runs'[DiscoveryKey] = finalize_runs[DiscoveryKey] + 1
       => \A k \in DOMAIN devices :
              /\ k \in DOMAIN devices'
              /\ devices'[k].channels = devices[k].channels]_vars

\* The last discovery finalize met a Device already in the map; Device d now
\* carries the response's metadata and its channel 0 is still on, though the
\* data it was re-resolved from says "switch": "off".
C2_Witness ==
    /\ finalize_found[DiscoveryKey]
    /\ \E k \in DOMAIN devices :
           LET d == devices[k].device_id IN
           /\ devices[k].manufacturer = Str("OPUS")
           /\ 0 \in DOMAIN devices[k].channels
           /\ devices[k].channels[0].is_on
           /\ Has(device_data, d)
           /\ Get(device_data, d) = DeviceObject(d)

\* C3: when the discovery finalize resolves the snapshot fragments of one
\* device id that no Device and no reverse-index entry knows, and the
\* fragments include states/switch and states/channel, then afterwards exactly
\* one Device has that id, its channel named by states/channel is on iff
\* states/switch was "on", and the step sent exactly one discovered signal for
\* the id.
C3_SnapshotResolvesOnce ==
    [][\A d \in DeviceIds :
          LET data == Get(device_data, d)
              states == GetOr(data, "states", None)
              ch == PyInt(Get(states, "channel"))
          IN
          (/\ finalize_runs'[DiscoveryKey] = finalize_runs[DiscoveryKey] + 1
           /\ Has(device_data, d)
           /\ {device_data.k[i] : i \in 1..Len(device_data.k)} \cap pending_devices = {d}
           /\ d \notin DOMAIN device_id_to_key
           /\ \A k \in DOMAIN devices : devices[k].device_id # d
           /\ ~Has(data, "state")
           /\ IsMap(states) /\ Has(states, "switch") /\ Has(states, "channel")
           /\ ch # <<>>)
          => /\ Cardinality({k \in DOMAIN devices' : devices'[k].device_id = d}) = 1
             /\ \A k \in DOMAIN devices' :
                    devices'[k].device_id = d
                    => /\ ch[1] \in DOMAIN devices'[k].channels
                       /\ devices'[k].channels[ch[1]].is_on
                              = (Get(states, "switch") = Str("on"))
             /\ Cardinality({i \in 1..Len(emitted') :
                                /\ emitted'[i].sig = "discovered"
                                /\ emitted'[i].id = d}) = 1]_vars

\* C4: finalizing a telegram for a device id that some Device of the map
\* carries changes no Device (no channel field, no metadata), no
\* reverse-index entry, and sends no signal.
C4_KnownDeviceTelegramSkipped ==
    [][\A d \in DeviceIds :
          (/\ finalize_runs'[TelegramKey(d)] = finalize_runs[TelegramKey(d)] + 1
           /\ \E k \in DOMAIN devices : devices[k].device_id = d)
          => /\ devices' = devices
             /\ device_id_to_key' = device_id_to_key
             /\ emitted' = <<>>]_vars

\* C5: finalizing a "from" telegram of a device id that no Device of the map
\* carries adds, in that step, a placeholder Device of that id with no
\* equipment-profile entry, sends exactly one discovered signal for it, and
\* the placeholder's channels are those the telegram's functions give.
C5_UnknownDeviceTelegramSynthesizes ==
    [][\A d \in DeviceIds :
          LET from_data == GetOr(Get(telegram_data, d), "from", EmptyMap)
              functions == FunctionsOf(GetOr(from_data, "functions", EmptyList))
              placeholder == EnOceanDevice(d, Str(d), <<>>, Str(""))
          IN
          (/\ finalize_runs'[TelegramKey(d)] = finalize_runs[TelegramKey(d)] + 1
           /\ Has(telegram_data, d)
           /\ IsMap(from_data) /\ Truthy(from_data)
           /\ \A k \in DOMAIN devices : devices[k].device_id # d)
          => /\ \E k \in DOMAIN devices' :
                    /\ devices'[k].device_id = d
                    /\ devices'[k].eeps = <<>>
                    /\ devices'[k].channels =
                           IF functions = <<>> THEN placeholder.channels
                           ELSE UpdateFromTelegram(placeholder,
                                    Map1("functions", List(functions))).dev.channels
             /\ Cardinality({i \in 1..Len(emitted') :
                                /\ emitted'[i].sig = "discovered"
                                /\ emitted'[i].id = d}) = 1]_vars

\* C6, as the specification states it: finalizing a live delta of a device id
\* that no Device of the map carries creates a Device of that id in that step
\* and sends a discovered signal for it.
C6_UnknownDeviceDeltaSynthesizes ==
    [][\A d \in DeviceIds :
          (/\ finalize_runs'[DeviceStreamKey(d)] = finalize_runs[DeviceStreamKey(d)] + 1
           /\ Has(device_stream_data, d)
           /\ \A k \in DOMAIN devices : devices[k].device_id # d)
          => /\ \E k \in DOMAIN devices' : devices'[k].device_id = d
             /\ \E i \in 1..Len(emitted') :
                    emitted'[i].sig = "discovered" /\ emitted'[i].id = d]_vars

\* C6, amended: finalizing a live delta of a device id for which the reverse
\* index yields no Device creates no Device, applies no function value and
\* sends no signal in that step; the delta's tree becomes the discovery data
\* of the id and the id joins the pending set.
C6_UnknownDeviceDeltaStored ==
    [][\A d \in DeviceIds :
          (/\ finalize_runs'[DeviceStreamKey(d)] = finalize_runs[DeviceStreamKey(d)] + 1
           /\ Has(device_stream_data, d)
           /\ LookupDevice(d) = <<>>)
          => /\ devices' = devices
             /\ device_id_to_key' = device_id_to_key
             /\ emitted' = <<>>
             /\ Has(device_data', d)
             /\ Get(device_data', d) = Get(device_stream_data, d)
             /\ d \in pending_devices']_vars

\* The delta of device d, which has no Device, was finalized: its tree (the
\* "state" sub-tree of a delta) is the discovery data of d, d is pending, and
\* still no Device carries the id.
C6_Witness ==
    \E d \in DeviceIds :
        /\ finalize_runs[DeviceStreamKey(d)] = 1
        /\ ~finalize_found[DeviceStreamKey(d)]
        /\ d \in pending_devices
        /\ Has(device_data, d)
        /\ Has(Get(device_data, d), "state")
        /\ \A k \in DOMAIN devices : devices[k].device_id # d

\* C7: a discovery finalize that resolves one pending device id sends a
\* discovered signal for the device key if and only if the key was absent
\* from the map or the Device stored under it had no equipment-profile entry.
C7_DiscoveredIffNewOrIncomplete ==
    [][\A d \in DeviceIds :
          LET key == DeviceKey(d, Get(device_data, d)) IN
          (/\ finalize_runs'[DiscoveryKey] = finalize_runs[DiscoveryKey] + 1
           /\ Has(device_data, d)
           /\ {device_data.k[i] : i \in 1..Len(device_data.k)} \cap pending_devices = {d})
          => ((\E i \in 1..Len(emitted') :
                   emitted'[i].sig = "discovered" /\ emitted'[i].key = key)
              <=> (key \notin DOMAIN devices \/ devices[key].eeps = <<>>))]_vars

\* C8: once the adapter is unloaded no finalize routine runs, the Device map
\* is not mutated and no signal is sent (stated for the states in which the
\* coordinator holds a handle of every armed timer).
C8_NothingRunsAfterUnload ==
    [][(life = "unloaded" /\ \A t \in timers : t.ref)
       => /\ finalize_runs' = finalize_runs
          /\ devices' = devices
          /\ emitted' = <<>>]_vars

\* C9: a configuration or parameters query whose wait timed out has returned
\* (it did not raise), its result is None, its answer subscription is not
\* active and was released by exactly one call.
C9_TimeoutReturnsAndReleasesOnce ==
    (q_kind \in {"configuration", "parameters"} /\ q_timed_out)
    => /\ q_pc = "returned"
       /\ q_result = "None"
       /\ ~q_active
       /\ Cardinality({i \in 1..Len(q_calls) : q_calls[i] = "unsubscribe"}) = 1

\* A configuration or parameters query has timed out and returned.
C9_Witness ==
    /\ q_kind \in {"configuration", "parameters"}
    /\ q_timed_out
    /\ q_pc = "returned"

C11_ChannelAppendedIffNonZero ==
    c_op.name # "none" =>
        LET n == Len(c_functions)
            last == c_functions[n]
            entry == Function("channel", ToString(c_op.channel))
        IN
        /\ n >= 1
        /\ (last = entry) <=> (c_op.channel # 0)
        /\ n = (IF c_op.channel # 0 THEN 2 ELSE 1)
        /\ Get(c_functions[1], "key") \in
               {Str("switch"), Str("dimValue"), Str("position"), Str("angle")}
        /\ c_op.name = "stop_cover" => c_functions[1] = Function("position", "stop")

\* A cover stop on channel 1 was encoded: the stop function, then the channel.
C11_Witness ==
    /\ c_op.name = "stop_cover"
    /\ c_op.channel = 1
    /\ c_functions = <<Function("position", "stop"), Function("channel", "1")>>

\* C12: the first function of a turn-on or turn-off command has the key
\* dimValue iff the command's target is dimmable: for a dimmable target it is
\* dimValue "100" (or the explicit percentage) for on and dimValue "0" for off;
\* for a non-dimmable target it is switch "on" / "off", also when a brightness
\* is supplied.
C12_DimValueIffDimmable ==
    c_op.name \in {"turn_on", "turn_off"} =>
        c_functions[1] =
            IF c_op.is_dimmable
            THEN Function("dimValue",
                          IF c_op.name = "turn_off" THEN "0"
                          ELSE IF c_op.value # NoNumber THEN ToString(c_op.value[1])
                          ELSE "100")
            ELSE Function("switch", IF c_op.name = "turn_on" THEN "on" ELSE "off")

\* C13: parse(raw) is the boolean for every case variant of "true" / "false";
\* otherwise the integer whose text raw is, when raw is an integer literal;
\* otherwise the float, when raw is a float literal; otherwise the text raw
\* unchanged; every text, the empty one included, has a result.
C13_ParseOrdering ==
    /\ t_value.t \in {"bool", "int", "float", "str"}
    /\ t_raw \in {"true", "True", "TRUE", "tRuE"} => t_value = Bool(TRUE)
    /\ t_raw \in {"false", "False", "FALSE", "fAlSe"} => t_value = Bool(FALSE)
    /\ t_raw \in {"0", "1", "2", "50", "100", "-5"} =>
           t_value.t = "int" /\ ToString(t_value.v) = t_raw
    /\ t_raw = "1.5" => t_value = Float(15)
    /\ t_raw = "2.0" => t_value = Float(20)
    /\ t_raw \in {"", "on", "K", "D2-01-00", "truely", "1.5.0"} => t_value = Str(t_raw)

\* The text "1" was parsed: the result is the integer 1, no text, no boolean.
C13_Witness == t_raw = "1" /\ t_value = Int_(1)

\* C14: when all the leaves of a flattened object (maps, lists, a list
\* directly inside a list; no sparse list) have been applied to an empty tree,
\* in whatever order, the builder raised on none of them and the tree equals
\* the object.
C14_RoundTrip ==
    (t_obj # None /\ t_leaves = {}) => (~t_err /\ SameValue(t_tree, t_obj))

\* C15: a step that delivers a getAnswer/devices or a system-info message
\* whose payload is no JSON changes no state: the Device map, the pending
\* devices, the accumulated discovery data, the gateway info, the discovery
\* timer handle and the armed timers are as before the message.
C15_MalformedPayloadDropped ==
    [][(received'.topic \in {"get_answer", "system_info"} /\ ~received'.valid)
       => UNCHANGED <<devices, device_id_to_key, pending_devices, device_data,
                      gateway_info, discovery_timer, timers>>]_vars

\* A getAnswer/devices payload that is no JSON has just been dropped by a
\* coordinator that holds pending discovery data, an armed discovery timer and
\* gateway info: all three are still there.
C15_Witness ==
    /\ received = [topic |-> "get_answer", valid |-> FALSE]
    /\ pending_devices # {}
    /\ device_data # EmptyMap
    /\ gateway_info # EmptyMap
    /\ discovery_timer = "Set"
    /\ \E t \in timers : t.key = DiscoveryKey /\ t.ref

\* C16: no message handler and no timer-driven finalize routine (discovery,
\* telegram, live delta) lets an exception escape, whatever the topic suffix
\* and the payload: a scalar 'from' leaf and a path through an existing scalar
\* included.
C16_NoExceptionEscapes == ~escaped

\* C17: a command whose publish fails leaves the Device and its channels as
\* they were when the command was requested, for the commands of the light
\* and switch entities, of the cover entity and of a direct caller of the
\* coordinator's command operations.
C17_FailedPublishLeavesState ==
    [][(\/ CallerCommand(FALSE)
        \/ \E brightness \in {NoNumber} \cup {<<b>> : b \in Brightnesses} :
               LightTurnOn(brightness, FALSE)
        \/ LightTurnOff(FALSE)
        \/ SwitchTurnOn(FALSE)
        \/ SwitchTurnOff(FALSE)
        \/ CoverCommand(FALSE))
       => e_device' = e_device]_vars

C19_DeviceIdOfKeyNeverChanges ==
    [][\A k \in DOMAIN devices :
           k \in DOMAIN devices' => devices'[k].device_id = devices[k].device_id]_vars

C21_CommandAddressedByDeviceId ==
    c_via \in {"light", "switch", "cover"} => c_op.device_id = e_device.device_id

\* C22: every device id that enters the pending set is resolved into the
\* Device map once fragments stop, without a further message.  Once setup has
\* returned only a timer runs without a message, so until the coordinator is
\* unloaded a state with a pending device id has a timer armed: a state with
\* a pending id and no timer stays as it is until another message arrives.
C22_PendingResolvedWithoutMessage ==
    (pending_devices # {} /\ life = "ready") => timers # {}

\* C23: after a device has been resolved, a later bulk snapshot for the same
\* device id with changed metadata, followed by the quiet period, leaves the
\* Device in the map with the new metadata: after every discovery finalize the
\* Device of each resolved device id carries the equipment profiles and the
\* manufacturer of the data accumulated for that id.
C23_ReResolutionCarriesNewMetadata ==
    [][finalize_runs'[DiscoveryKey] = finalize_runs[DiscoveryKey] + 1
       => \A i \in 1..Len(device_data.k) :
             LET device_id == device_data.k[i]
                 data == device_data.e[i]
             IN (/\ device_id \in DOMAIN device_id_to_key
                 /\ device_id_to_key[device_id] \in DOMAIN devices
                 /\ devices[device_id_to_key[device_id]].device_id = device_id
                 /\ device_id_to_key'[device_id] \in DOMAIN devices'
                 /\ devices'[device_id_to_key'[device_id]].device_id = device_id)
                => /\ devices'[device_id_to_key'[device_id]].eeps = EepsOf(data)
                   /\ devices'[device_id_to_key'[device_id]].manufacturer
                        = GetOr(data, "manufacturer", Str(""))]_vars

\* C24: when the quiet period of a stream key elapses and its record is
\* finalized, the pending record of the key (the accumulated tree and the
\* timer handle) no longer exists, for all three streams, so that the next
\* fragment of the key starts from an empty tree.
C24_FinalizeDiscardsPendingRecord ==
    [][/\ finalize_runs'[DiscoveryKey] = finalize_runs[DiscoveryKey] + 1
          => /\ device_data' = EmptyMap
             /\ discovery_timer' = "None"
       /\ \A d \in DeviceIds :
            /\ finalize_runs'[TelegramKey(d)] = finalize_runs[TelegramKey(d)] + 1
                 => /\ ~Has(telegram_data', d)
                    /\ d \notin pending_telegrams'
            /\ finalize_runs'[DeviceStreamKey(d)] = finalize_runs[DeviceStreamKey(d)] + 1
                 => /\ ~Has(device_stream_data', d)
                    /\ d \notin pending_device_streams']_vars

\* C25: the first discovery finalize after async_setup has armed its timer
\* never runs earlier than the initial window (5 s) after that, also when
\* snapshot fragments or a getAnswer/devices response arrive in the window.
C25_FirstFinalizeAfterInitialWindow ==
    first_finalize_at # <<>> => first_finalize_at[1] >= window_end[1]

\* C26: in every reachable state at most one timer is armed per stream key;
\* in particular at most one discovery finalize timer, also when messages are
\* delivered while async_setup is suspended between its subscribes and
\* publishes and setup then arms its own initial timer.
C26_OneTimerPerStreamKey ==
    \A k \in StreamKeys : Cardinality({t \in timers : t.key = k}) <= 1

\* C27: a finalize of a live delta for a device that has a Device in the map,
\* when the delta yields at least one function, applies the functions to that
\* Device and sends exactly one state-updated signal carrying it, scoped to
\* the device's key; a delta that yields no function changes no Device and
\* sends no signal.
C27_DeltaUpdatesAndSignalsOnce ==
    [][\A d \in DeviceIds :
         (/\ finalize_runs'[DeviceStreamKey(d)] = finalize_runs[DeviceStreamKey(d)] + 1
          /\ Has(device_stream_data, d))
         => \A k \in DOMAIN devices :
              devices[k].device_id = d
              => LET functions == StreamFunctions(Get(device_stream_data, d))
                     updated == UpdateFromTelegram(devices[k],
                                                   Map1("functions", List(functions))).dev
                 IN IF functions = <<>>
                    THEN devices' = devices /\ emitted' = <<>>
                    ELSE /\ devices' = [devices EXCEPT ![k] = updated]
                         /\ emitted' = <<SignalStateUpdate(k, updated)>>]_vars

\* C28: for every entry device_id -> key of the reverse index, key is in the
\* device map and the Device stored under it has that device_id.
C28_ReverseIndexConsistent ==
    \A d \in DOMAIN device_id_to_key :
        /\ device_id_to_key[d] \in DOMAIN devices
        /\ devices[device_id_to_key[d]].device_id = d

\* The paths of the scalar leaves of a tree.
LeafPaths(tree) == {f.parts : f \in Leaves(tree, <<>>)}

\* C29: the tree handed to a finalize holds every fragment received for its
\* key since the previous finalize: only a later fragment of the snapshot
\* stream may overwrite a leaf of the tree accumulated for a pending device
\* id; no other step takes a leaf out of it, neither a getAnswer/devices
\* response nor a live delta for the same device id.
C29_NoAccumulatedFragmentDiscarded ==
    [][\/ \E x \in DeviceIds, f \in DeviceFragments : HandleDevicePropertyMessage(x, f)
       \/ \A d \in pending_devices :
            Has(device_data, d)
            => /\ Has(device_data', d)
               /\ LeafPaths(Get(device_data, d))
                    \subseteq LeafPaths(Get(device_data', d))]_vars

\* The numeric fields of a channel, the function key that sets each, and
\* whether the value is converted with float (else with int).
NumericFields ==
    {[key |-> "dimValue", field |-> "brightness", float |-> FALSE],
     [key |-> "position", field |-> "position", float |-> FALSE],
     [key |-> "angle", field |-> "angle", float |-> FALSE],
     [key |-> "energy", field |-> "energy", float |-> TRUE],
     [key |-> "power", field |-> "power", float |-> TRUE]}

\* The number a function's value converts to for a numeric field, <<>> when
\* it cannot be parsed.
Converted(func, nf) ==
    IF nf.float THEN PyFloat(Get(func, "value")) ELSE PyInt(Get(func, "value"))

\* The positions in functions of the functions with key whose value converts.
Parsable(functions, nf) ==
    {i \in 1..Len(functions) :
        Get(functions[i], "key") = Str(nf.key) /\ Converted(functions[i], nf) # <<>>}

\* The largest element of a non-empty set of positions.
Last(positions) == CHOOSE i \in positions : \A j \in positions : j <= i

RECURSIVE SignalsOf(_, _)
\* The discovered signals sent so far for the (key, id) pairs of whos, summed.
SignalsOf(bag, whos) ==
    IF whos = {} THEN 0
    ELSE LET w == CHOOSE x \in whos : TRUE IN bag[w] + SignalsOf(bag, whos \ {w})

\* C31: over any sequence of messages a discovered signal is sent at most
\* twice for the same device key: once when the key first appears and at most
\* once more when a placeholder without equipment profiles is upgraded;
\* resolutions of a device whose data holds no equipment profile do not send
\* it again each time.
C31_DiscoveredAtMostTwicePerKey ==
    \A w \in DOMAIN discovered :
        SignalsOf(discovered, {x \in DOMAIN discovered : x.key = w.key}) <= 2

\* C32: in every reachable state no two entries of the Device map carry the
\* same device_id: no stale entry stays when a device's friendlyId differs
\* between two resolutions, or when a placeholder synthesized from a telegram
\* under the device_id is later resolved under a friendlyId.
C32_OneEntryPerDeviceId ==
    \A k1, k2 \in DOMAIN devices :
        devices[k1].device_id = devices[k2].device_id => k1 = k2

\* C33: channel state applied to a placeholder synthesized from a telegram is
\* still there, unchanged, on the Device the reverse index yields for the
\* device_id after a discovery finalize resolves the device, whatever
\* friendlyId the snapshot carries: a discovery finalize leaves the channels
\* of the Device that the reverse index yields for each device id as they were.
C33_PlaceholderChannelsSurviveResolution ==
    [][finalize_runs'[DiscoveryKey] = finalize_runs[DiscoveryKey] + 1
       => \A d \in DOMAIN device_id_to_key :
             (/\ device_id_to_key[d] \in DOMAIN devices
              /\ devices[device_id_to_key[d]].device_id = d
              /\ devices[device_id_to_key[d]].eeps = <<>>
              /\ devices[device_id_to_key[d]].channels # <<>>)
             => /\ device_id_to_key'[d] \in DOMAIN devices'
                /\ devices'[device_id_to_key'[d]].channels
                     = devices[device_id_to_key[d]].channels]_vars

\* C34: every Device in the Device map has had a discovered signal sent for
\* it (its key and device_id) at or before the step that stored it: no
\* resolution stores a Device and then fails before announcing it, also when
\* the equipment-profile list arrives as an array of scalar codes.
C34_StoredDeviceWasAnnounced ==
    \A k \in DOMAIN devices :
        [key |-> k, id |-> devices[k].device_id] \in DOMAIN discovered

\* C35: the answer to a per-device correlated query (profile, configuration,
\* parameters), which the broker also delivers to the coordinator's
\* getAnswer/devices/# subscription, is never treated as a discovery response:
\* the step that delivers it does not replace accumulated discovery data, adds
\* no device to the pending set and does not re-arm the discovery timer.
C35_QueryAnswerIsNoDiscoveryResponse ==
    [][(\E payload \in QueryAnswerPayloads : QueryAnswerDelivered(payload))
       => /\ device_data' = device_data
          /\ pending_devices' = pending_devices
          /\ discovery_timer' = discovery_timer
          /\ timers' = timers]_vars

\* C36: if a subscribe or publish step of async_setup fails, no subscription
\* made by the earlier steps of that setup is still active afterwards, and no
\* discovery timer is armed.
C36_FailedSetupLeavesNothing ==
    life = "failed" => (subscriptions = <<>> /\ timers = {})

\* C37: if publishing the request of a correlated query (configuration,
\* parameters, profile) fails after the answer subscription was made, that
\* subscription is still released.  After the failed publish nothing of the
\* query runs but the profile query's timer, so a query that has raised
\* either holds no active subscription or has its release timer armed.
C37_FailedPublishReleasesSubscription ==
    q_pc = "raised" => (~q_active \/ q_timer)

\* C38: for a dimmable light, a turn-on with a host brightness b in 1..255
\* publishes a dimValue in 1..100 and leaves the channel on: a turn-on never
\* encodes dimValue "0" and never marks the channel off.
C38_TurnOnNeverTurnsOff ==
    [][\A b \in Brightnesses, ok \in BOOLEAN :
          (IsDimmable(e_device) /\ LightTurnOn(<<b>>, ok))
          => /\ \E n \in 1..100 : c_functions'[1] = Function("dimValue", ToString(n))
             /\ e_device'.channels[e_channel].is_on]_vars

=============================================================================
